---- MODULE Spec2Model ----
(***************************************************************************)
(* Model of the dailybible-rs user-state store (src/src/userstate.rs):     *)
(* a Vec<UserState> behind a tokio RwLock, with JSON save and load, called *)
(* by concurrently running tasks.                                          *)
(***************************************************************************)
EXTENDS Integers, Sequences, FiniteSets, TLC

\* ------------------------------------------------------------------------
\* Bounds and input sets
\* ------------------------------------------------------------------------

\* The tasks that call the store concurrently.
Tasks == {1, 2}

NoTask == 0

\* The task tokio::spawn starts for run_timer_thread_loop.
Scheduler == 3

\* The task tokio::spawn starts for run_save_userstate_loop.
Saver == 4

\* Largest number of tasks the two loops have spawned and not yet seen end.
MaxWorkers == 2

\* The tasks the loops spawn: reminder dispatches and periodic snapshots.
Workers == 5..(4 + MaxWorkers)

Procs == Tasks \cup {Scheduler, Saver} \cup Workers

\* Chat ids the callers use (private chats are positive, groups negative).
ChatIds == {7, -12}

\* Times of day, in seconds since midnight, that a timer may carry.
Times == {28800, 86399}

\* ------------------------------------------------------------------------
\* Data types
\* ------------------------------------------------------------------------

\* enum Language { English, German }
Languages == {"English", "German"}

\* Option<chrono::NaiveTime>; NaiveTime is seconds since midnight.
None == [some |-> FALSE, secs |-> 0]

Some(t) == [some |-> TRUE, secs |-> t]

Timers == {None} \cup {Some(t) : t \in Times}

\* struct UserState { chat_id, language, timer }
UserState == [chat_id : ChatIds, language : Languages, timer : Timers]

\* The records the callers pass to update_userstate.
Inputs ==
    { [chat_id |-> 7, language |-> "German", timer |-> None],
      [chat_id |-> 7, language |-> "English", timer |-> Some(28800)],
      [chat_id |-> -12, language |-> "German", timer |-> Some(86399)] }

\* The default record find_userstate builds before it scans.
DefaultUserState(chat_id) ==
    [chat_id |-> chat_id, language |-> "English", timer |-> None]

\* Timelike::hour and Timelike::minute of a NaiveTime.
Hour(secs) == secs \div 3600

Minute(secs) == (secs \div 60) % 60

Second(secs) == secs % 60

\* ------------------------------------------------------------------------
\* serde_json text of a Vec<UserState>.  A text is a sequence of lines and a
\* line a sequence of tokens: "[" and "]" on lines of their own, one line per
\* record (all but the last end with ","), and "[" "]" on one line for the
\* empty Vec.  Numbers and times are written digit by digit.
\* ------------------------------------------------------------------------

DigitChars == <<"0", "1", "2", "3", "4", "5", "6", "7", "8", "9">>

DigitChar(d) == DigitChars[d + 1]

IsDigit(c) == \E d \in 0..9 : DigitChars[d + 1] = c

DigitVal(c) == CHOOSE d \in 0..9 : DigitChars[d + 1] = c

\* Decimal text of a non-negative integer.
RECURSIVE NatToText(_)
NatToText(n) ==
    IF n < 10 THEN <<DigitChar(n)>>
    ELSE NatToText(n \div 10) \o <<DigitChar(n % 10)>>

\* i64 as serde_json writes it (ChatId is a transparent i64).
IntToText(n) == IF n < 0 THEN <<"-">> \o NatToText(0 - n) ELSE NatToText(n)

IsNatText(toks) ==
    /\ Len(toks) >= 1
    /\ \A i \in 1..Len(toks) : IsDigit(toks[i])

IsIntText(toks) ==
    /\ Len(toks) >= 1
    /\ IF toks[1] = "-" THEN IsNatText(Tail(toks)) ELSE IsNatText(toks)

RECURSIVE NatFromText(_)
NatFromText(toks) ==
    IF Len(toks) = 1 THEN DigitVal(toks[1])
    ELSE 10 * NatFromText(SubSeq(toks, 1, Len(toks) - 1)) + DigitVal(toks[Len(toks)])

IntFromText(toks) ==
    IF toks[1] = "-" THEN 0 - NatFromText(Tail(toks)) ELSE NatFromText(toks)

\* As TimeToText, but formatted with "%H:%M" and a fixed ":00".
TimeToTextNoSeconds(secs) ==
    << DigitChar(Hour(secs) \div 10), DigitChar(Hour(secs) % 10), ":",
       DigitChar(Minute(secs) \div 10), DigitChar(Minute(secs) % 10), ":",
       "0", "0" >>

\* chrono's Serialize for NaiveTime: "%H:%M:%S" (no fraction when it is zero).
TimeToText(secs) ==
    << DigitChar(Hour(secs) \div 10), DigitChar(Hour(secs) % 10), ":",
       DigitChar(Minute(secs) \div 10), DigitChar(Minute(secs) % 10), ":",
       DigitChar(Second(secs) \div 10), DigitChar(Second(secs) % 10) >>

\* chrono's Deserialize for NaiveTime accepts HH:MM:SS within range.
IsTimeText(toks) ==
    /\ Len(toks) = 8
    /\ toks[3] = ":" /\ toks[6] = ":"
    /\ \A i \in {1, 2, 4, 5, 7, 8} : IsDigit(toks[i])
    /\ 10 * DigitVal(toks[1]) + DigitVal(toks[2]) <= 23
    /\ 10 * DigitVal(toks[4]) + DigitVal(toks[5]) <= 59
    /\ 10 * DigitVal(toks[7]) + DigitVal(toks[8]) <= 59

TimeFromText(toks) ==
    3600 * (10 * DigitVal(toks[1]) + DigitVal(toks[2]))
    + 60 * (10 * DigitVal(toks[4]) + DigitVal(toks[5]))
    + (10 * DigitVal(toks[7]) + DigitVal(toks[8]))

\* Position of the first token c of toks, 0 when there is none.
RECURSIVE IndexOf(_, _, _)
IndexOf(toks, c, i) ==
    IF i > Len(toks) THEN 0
    ELSE IF toks[i] = c THEN i ELSE IndexOf(toks, c, i + 1)

\* Option<NaiveTime>: null or the time string.
TimerToText(timer) == IF timer.some THEN TimeToText(timer.secs) ELSE <<"null">>

\* #[derive(Serialize)] for UserState: the three fields in declaration order.
UserStateToText(u) ==
    <<"{", "chat_id">> \o IntToText(u.chat_id)
    \o <<",", "language", u.language, ",", "timer">> \o TimerToText(u.timer)
    \o <<"}">>

\* serde_json::to_string_pretty(&Vec<UserState>)
RECURSIVE RecordLines(_)
RecordLines(states) ==
    IF Len(states) = 0 THEN <<>>
    ELSE IF Len(states) = 1 THEN <<UserStateToText(states[1])>>
    ELSE <<UserStateToText(states[1]) \o <<",">>>> \o RecordLines(Tail(states))

to_string_pretty(states) ==
    IF Len(states) = 0 THEN << <<"[", "]">> >>
    ELSE << <<"[">> >> \o RecordLines(states) \o << <<"]">> >>

\* Position of the first "," of a line at or after position from, 0 if none.
FirstComma(line, from) ==
    IF \E i \in from..Len(line) : line[i] = ","
    THEN CHOOSE i \in from..Len(line) :
            /\ line[i] = ","
            /\ \A j \in from..(i - 1) : line[j] # ","
    ELSE 0

\* #[derive(Deserialize)] for UserState on one record line (without the
\* separating "," that follows all but the last record).
ParseUserState(line) ==
    LET c1 == FirstComma(line, 3)
        n  == Len(line)
        wellFormed ==
            /\ n >= 10
            /\ line[1] = "{" /\ line[2] = "chat_id"
            /\ c1 > 3
            /\ IsIntText(SubSeq(line, 3, c1 - 1))
            /\ n >= c1 + 6
            /\ line[c1 + 1] = "language"
            /\ line[c1 + 2] \in Languages
            /\ line[c1 + 3] = ","
            /\ line[c1 + 4] = "timer"
            /\ line[n] = "}"
            /\ \/ SubSeq(line, c1 + 5, n - 1) = <<"null">>
               \/ IsTimeText(SubSeq(line, c1 + 5, n - 1))
    IN  IF wellFormed
        THEN [ok |-> TRUE,
              value |-> [chat_id  |-> IntFromText(SubSeq(line, 3, c1 - 1)),
                         language |-> line[c1 + 2],
                         timer    |-> IF SubSeq(line, c1 + 5, n - 1) = <<"null">>
                                      THEN None
                                      ELSE Some(TimeFromText(SubSeq(line, c1 + 5, n - 1)))]]
        ELSE [ok |-> FALSE, value |-> DefaultUserState(0)]

\* A record line in position i of n record lines, separator removed.
StripSeparator(line, isLast) ==
    IF isLast THEN line
    ELSE IF Len(line) >= 1 /\ line[Len(line)] = ","
         THEN SubSeq(line, 1, Len(line) - 1)
         ELSE <<>>

\* serde_json::from_str::<Vec<UserState>>(&file_string)
from_str(text) ==
    IF text = << <<"[", "]">> >> THEN [ok |-> TRUE, value |-> <<>>]
    ELSE LET n == Len(text)
             rec(i) == ParseUserState(StripSeparator(text[i], i = n - 1))
         IN  IF /\ n >= 3
                /\ text[1] = <<"[">>
                /\ text[n] = <<"]">>
                /\ \A i \in 2..(n - 1) : rec(i).ok
             THEN [ok |-> TRUE, value |-> [i \in 1..(n - 2) |-> rec(i + 1).value]]
             ELSE [ok |-> FALSE, value |-> <<>>]

\* ------------------------------------------------------------------------
\* State
\* ------------------------------------------------------------------------

VARIABLES
    user_states,   \* the Vec<UserState> inside UserStateWrapper.user_states
    rwlock,        \* the tokio RwLock around it: readers, writer, FIFO waiters
    file,          \* the state file: whether it exists and its text
    pc,            \* per task: where it is inside the store call it runs
    call,          \* per task: the call it runs or last ran, and its result
    obs,           \* per task: what held when its current call started
    pre,           \* store and file when the sequential caller's call started
    prev,          \* the sequential caller's call before its last one
    frame,         \* per task: the handler or loop it runs and its locals
    env,           \* wall clock, shutdown signal, main and the runtime
    log,           \* what the scheduler and the persistence loop have done
    lookup         \* a get_biblereading_for_date call: inputs, row, result

vars ==
    <<user_states, rwlock, file, pc, call, obs, pre, prev,
      frame, env, log, lookup>>

\* The variables of the handlers, the loops and the schedule lookup.
beyond == <<frame, env, log, lookup>>

MissingFile == [exists |-> FALSE, text |-> <<>>]

FileWith(text) == [exists |-> TRUE, text |-> text]

NoCall ==
    [op |-> "none", arg |-> DefaultUserState(0), ret_bool |-> FALSE,
     ret_state |-> DefaultUserState(0), ret_ok |-> FALSE, tmp |-> <<>>]

NewCall(op, arg) == [NoCall EXCEPT !.op = op, !.arg = arg]

NoObs == [absent |-> FALSE, raced |-> FALSE]

NoPrev == [call |-> NoCall, absent |-> FALSE]

\* RwLock::new
FreeLock == [readers |-> {}, writer |-> NoTask, queue |-> <<>>]

\* Some record of the Vec carries this chat id.
HasChat(states, chat_id) == \E i \in 1..Len(states) : states[i].chat_id = chat_id

\* Number of records with this chat id.
CountChat(states, chat_id) ==
    Cardinality({i \in 1..Len(states) : states[i].chat_id = chat_id})

\* ------------------------------------------------------------------------
\* tokio::sync::RwLock: fair, waiters are served in arrival order.
\* ------------------------------------------------------------------------

Queued(t) == \E i \in 1..Len(rwlock.queue) : rwlock.queue[i] = t

Compatible(mode) ==
    IF mode = "read" THEN rwlock.writer = NoTask
    ELSE rwlock.writer = NoTask /\ rwlock.readers = {}

Granted(t, mode, queue) ==
    IF mode = "read"
    THEN [rwlock EXCEPT !.readers = @ \cup {t}, !.queue = queue]
    ELSE [rwlock EXCEPT !.writer = t, !.queue = queue]

\* self.user_states.read().await / .write().await of task t standing at label
\* at: the guard is taken at once when nobody waits and the lock is
\* compatible, otherwise t joins the queue and takes the guard when it is
\* first in the queue and the lock is compatible.
Acquire(t, at, mode, next) ==
    /\ pc[t] = at
    /\ IF Queued(t)
       THEN /\ Head(rwlock.queue) = t
            /\ Compatible(mode)
            /\ rwlock' = Granted(t, mode, Tail(rwlock.queue))
            /\ pc' = [pc EXCEPT ![t] = next]
       ELSE IF rwlock.queue = <<>> /\ Compatible(mode)
            THEN /\ rwlock' = Granted(t, mode, rwlock.queue)
                 /\ pc' = [pc EXCEPT ![t] = next]
            ELSE /\ rwlock' = [rwlock EXCEPT !.queue = Append(@, t)]
                 /\ pc' = pc

\* Dropping the guard t holds.
Released(t) ==
    [rwlock EXCEPT !.readers = @ \ {t},
                   !.writer = IF @ = t THEN NoTask ELSE @]

\* ------------------------------------------------------------------------
\* The store operations, one action per step between two suspension points.
\* ------------------------------------------------------------------------

Idle(t) == pc[t] = "idle"

\* A task enters a store call.
Enter(t, op, arg, at) ==
    /\ Idle(t)
    /\ pc' = [pc EXCEPT ![t] = at]
    /\ call' = [call EXCEPT ![t] = NewCall(op, arg)]

\* A task leaves its call with the result fields of done.
Leave(t, done) ==
    /\ pc' = [pc EXCEPT ![t] = "idle"]
    /\ call' = [call EXCEPT ![t] = [done EXCEPT !.tmp = <<>>]]

\* --- UserStateWrapper::new ------------------------------------------------

\* A fresh wrapper: an empty Vec behind a new lock.
New(t) ==
    /\ Idle(t)
    /\ user_states' = <<>>
    /\ rwlock' = FreeLock
    /\ call' = [call EXCEPT ![t] = NewCall("new", DefaultUserState(0))]
    /\ obs' = [obs EXCEPT ![t] = NoObs]
    /\ UNCHANGED <<file, pc>>

\* --- user_state_exists ---------------------------------------------------

\* As ExistsFrom, but the loop gives up after the first record.
ExistsFromFirstOnly(states, chat_id, i) ==
    IF i > Len(states) THEN FALSE ELSE states[i].chat_id = chat_id

\* The loop of user_state_exists from record i on.
RECURSIVE ExistsFrom(_, _, _)
ExistsFrom(states, chat_id, i) ==
    IF i > Len(states) THEN FALSE
    ELSE IF states[i].chat_id = chat_id THEN TRUE
    ELSE ExistsFrom(states, chat_id, i + 1)

ExistsOf(t, c) ==
    /\ Enter(t, "exists", DefaultUserState(c), "exists_read")
    /\ obs' = [obs EXCEPT ![t] = [NoObs EXCEPT !.absent = ~HasChat(user_states, c)]]
    /\ UNCHANGED <<user_states, rwlock, file>>

StartExists(t) == \E c \in ChatIds : ExistsOf(t, c)

ExistsRead(t) ==
    /\ Acquire(t, "exists_read", "read", "exists_scan")
    /\ UNCHANGED <<user_states, file, call, obs>>

ExistsScan(t) ==
    /\ pc[t] = "exists_scan"
    /\ Leave(t, [call[t] EXCEPT
            !.ret_bool = ExistsFrom(user_states, call[t].arg.chat_id, 1)])
    /\ rwlock' = Released(t)
    /\ UNCHANGED <<user_states, file, obs>>

\* --- find_userstate ------------------------------------------------------

\* As FindFrom, but the loop returns the first record without comparing ids.
FindFromAnyRecord(states, default_user_state, i) ==
    IF i > Len(states) THEN default_user_state ELSE states[i]

\* The loop of find_userstate from record i on: the first record with the
\* chat id, else the default record built before the loop.
RECURSIVE FindFrom(_, _, _)
FindFrom(states, default_user_state, i) ==
    IF i > Len(states) THEN default_user_state
    ELSE IF states[i].chat_id = default_user_state.chat_id THEN states[i]
    ELSE FindFrom(states, default_user_state, i + 1)

\* find_userstate(c) is called by task t.
FindOf(t, c) ==
    /\ Enter(t, "find", DefaultUserState(c), "find_read")
    /\ obs' = [obs EXCEPT ![t] = [NoObs EXCEPT !.absent = ~HasChat(user_states, c)]]
    /\ UNCHANGED <<user_states, rwlock, file>>

StartFind(t) == \E c \in ChatIds : FindOf(t, c)

FindRead(t) ==
    /\ Acquire(t, "find_read", "read", "find_scan")
    /\ UNCHANGED <<user_states, file, call, obs>>

\* As FindScan, but a chat id that is not stored gets its default record
\* stored (get-or-insert).
FindScanInserts(t) ==
    /\ pc[t] = "find_scan"
    /\ Leave(t, [call[t] EXCEPT !.ret_state = FindFrom(user_states, call[t].arg, 1)])
    /\ rwlock' = Released(t)
    /\ user_states' = IF HasChat(user_states, call[t].arg.chat_id)
                      THEN user_states
                      ELSE Append(user_states, call[t].arg)
    /\ UNCHANGED <<file, obs>>

FindScan(t) ==
    /\ pc[t] = "find_scan"
    /\ Leave(t, [call[t] EXCEPT !.ret_state = FindFrom(user_states, call[t].arg, 1)])
    /\ rwlock' = Released(t)
    /\ user_states' = user_states
    /\ UNCHANGED <<file, obs>>

\* --- update_userstate ----------------------------------------------------

\* As ReplaceFrom, but the matching record only takes the new language.
RECURSIVE ReplaceFromKeepTimer(_, _, _)
ReplaceFromKeepTimer(states, user_state, i) ==
    IF i > Len(states) THEN [found |-> FALSE, states |-> states]
    ELSE IF states[i].chat_id = user_state.chat_id
         THEN [found |-> TRUE,
               states |-> [states EXCEPT ![i].language = user_state.language]]
         ELSE ReplaceFromKeepTimer(states, user_state, i + 1)

\* The iter_mut loop of update_userstate from record i on: the first record
\* with the chat id is overwritten and the loop is left.
RECURSIVE ReplaceFrom(_, _, _)
ReplaceFrom(states, user_state, i) ==
    IF i > Len(states) THEN [found |-> FALSE, states |-> states]
    ELSE IF states[i].chat_id = user_state.chat_id
         THEN [found |-> TRUE, states |-> [states EXCEPT ![i] = user_state]]
         ELSE ReplaceFrom(states, user_state, i + 1)

\* Another task is inside update_userstate for the same chat id and also
\* found the chat id absent when it started.
Rival(t, u, chat_id) ==
    /\ u # t
    /\ ~Idle(u)
    /\ call[u].op = "update"
    /\ call[u].arg.chat_id = chat_id
    /\ obs[u].absent

\* update_userstate(s) is called by task t.
UpdateOf(t, s) ==
    /\ Enter(t, "update", s, "update_write1")
    /\ LET absent == ~HasChat(user_states, s.chat_id)
           raced  == absent /\ \E u \in Procs : Rival(t, u, s.chat_id)
       IN  obs' = [u \in Procs |->
                    IF u = t THEN [absent |-> absent, raced |-> raced]
                    ELSE IF absent /\ Rival(t, u, s.chat_id)
                         THEN [obs[u] EXCEPT !.raced = TRUE]
                         ELSE obs[u]]
    /\ UNCHANGED <<user_states, rwlock, file>>

StartUpdate(t) == \E s \in Inputs : UpdateOf(t, s)

UpdateWrite1(t) ==
    /\ Acquire(t, "update_write1", "write", "update_scan")
    /\ UNCHANGED <<user_states, file, call, obs>>

\* As UpdateScan, but a record that is already stored is kept as it is.
UpdateScanKeepsStored(t) ==
    /\ pc[t] = "update_scan"
    /\ rwlock' = Released(t)
    /\ user_states' = user_states
    /\ IF HasChat(user_states, call[t].arg.chat_id)
       THEN Leave(t, [call[t] EXCEPT !.ret_bool = TRUE])
       ELSE /\ pc' = [pc EXCEPT ![t] = "update_write2"]
            /\ call' = call
    /\ UNCHANGED <<file, obs>>

\* The for statement: return true from inside the loop on a match; the guard
\* is a temporary of the for statement and is dropped when the loop ends.
\* As UpdateScan, but the guard of the scan is still held when the record
\* was not found and the guard for the append is requested.
UpdateScanKeepsGuard(t) ==
    /\ pc[t] = "update_scan"
    /\ LET loop == ReplaceFrom(user_states, call[t].arg, 1)
       IN  /\ user_states' = loop.states
           /\ IF loop.found
              THEN /\ Leave(t, [call[t] EXCEPT !.ret_bool = TRUE])
                   /\ rwlock' = Released(t)
              ELSE /\ pc' = [pc EXCEPT ![t] = "update_write2"]
                   /\ call' = call
                   /\ rwlock' = rwlock
    /\ UNCHANGED <<file, obs>>

UpdateScan(t) ==
    /\ pc[t] = "update_scan"
    /\ rwlock' = Released(t)
    /\ LET loop == ReplaceFrom(user_states, call[t].arg, 1)
       IN  /\ user_states' = loop.states
           /\ IF loop.found
              THEN Leave(t, [call[t] EXCEPT !.ret_bool = TRUE])
              ELSE /\ pc' = [pc EXCEPT ![t] = "update_write2"]
                   /\ call' = call
    /\ UNCHANGED <<file, obs>>

UpdateWrite2(t) ==
    /\ Acquire(t, "update_write2", "write", "update_push")
    /\ UNCHANGED <<user_states, file, call, obs>>

\* As UpdatePush, but the call reports an update instead of a new record.
UpdatePushReturnsTrue(t) ==
    /\ pc[t] = "update_push"
    /\ user_states' = Append(user_states, call[t].arg)
    /\ rwlock' = Released(t)
    /\ Leave(t, [call[t] EXCEPT !.ret_bool = TRUE])
    /\ UNCHANGED <<file, obs>>

\* As UpdatePush, but the record is put in front of the collection.
UpdatePushInFront(t) ==
    /\ pc[t] = "update_push"
    /\ user_states' = <<call[t].arg>> \o user_states
    /\ rwlock' = Released(t)
    /\ Leave(t, [call[t] EXCEPT !.ret_bool = FALSE])
    /\ UNCHANGED <<file, obs>>

UpdatePush(t) ==
    /\ pc[t] = "update_push"
    /\ user_states' = Append(user_states, call[t].arg)
    /\ rwlock' = Released(t)
    /\ Leave(t, [call[t] EXCEPT !.ret_bool = FALSE])
    /\ UNCHANGED <<file, obs>>

\* --- write_states_to_file ------------------------------------------------

StartWrite(t) ==
    /\ Enter(t, "write", DefaultUserState(0), "write_read")
    /\ obs' = [obs EXCEPT ![t] = NoObs]
    /\ UNCHANGED <<user_states, rwlock, file>>

\* The read guard is a temporary of the match scrutinee: it lives until the
\* match statement ends, that is across the file write.
WriteRead(t) ==
    /\ Acquire(t, "write_read", "read", "write_create")
    /\ UNCHANGED <<user_states, file, call, obs>>

\* to_string_pretty, then tokio::fs::write opens the file with truncation;
\* when the file cannot be opened the error is returned.
WriteCreate(t) ==
    /\ pc[t] = "write_create"
    /\ \/ /\ file' = FileWith(<<>>)
          /\ pc' = [pc EXCEPT ![t] = "write_all"]
          /\ call' = [call EXCEPT ![t].tmp = to_string_pretty(user_states)]
          /\ rwlock' = rwlock
       \/ /\ file' = file
          /\ Leave(t, [call[t] EXCEPT !.ret_ok = FALSE])
          /\ rwlock' = Released(t)
    /\ UNCHANGED <<user_states, obs>>

\* tokio::fs::write writes the text; an I/O error leaves a proper prefix.
WriteAll(t) ==
    /\ pc[t] = "write_all"
    /\ \/ /\ file' = FileWith(call[t].tmp)
          /\ Leave(t, [call[t] EXCEPT !.ret_ok = TRUE])
       \/ \E k \in 0..(Len(call[t].tmp) - 1) :
            /\ file' = FileWith(SubSeq(call[t].tmp, 1, k))
            /\ Leave(t, [call[t] EXCEPT !.ret_ok = FALSE])
    /\ rwlock' = Released(t)
    /\ UNCHANGED <<user_states, obs>>

\* --- load_states_from_file -----------------------------------------------

StartLoad(t) ==
    /\ Enter(t, "load", DefaultUserState(0), "load_read")
    /\ obs' = [obs EXCEPT ![t] = NoObs]
    /\ UNCHANGED <<user_states, rwlock, file>>

\* As LoadRead, but the Vec is cleared before the file is read.
LoadReadClearsFirst(t) ==
    /\ pc[t] = "load_read"
    /\ \E readable \in BOOLEAN :
         IF file.exists /\ readable /\ from_str(file.text).ok
         THEN /\ pc' = [pc EXCEPT ![t] = "load_write"]
              /\ call' = [call EXCEPT ![t].tmp = from_str(file.text).value]
         ELSE Leave(t, [call[t] EXCEPT !.ret_ok = FALSE])
    /\ user_states' = <<>>
    /\ UNCHANGED <<rwlock, file, obs>>

\* read_to_string and from_str; either may fail, and then the call returns
\* the error without touching the lock or the Vec.
LoadRead(t) ==
    /\ pc[t] = "load_read"
    /\ \E readable \in BOOLEAN :
         IF file.exists /\ readable /\ from_str(file.text).ok
         THEN /\ pc' = [pc EXCEPT ![t] = "load_write"]
              /\ call' = [call EXCEPT ![t].tmp = from_str(file.text).value]
         ELSE Leave(t, [call[t] EXCEPT !.ret_ok = FALSE])
    /\ user_states' = user_states
    /\ UNCHANGED <<rwlock, file, obs>>

LoadWrite(t) ==
    /\ Acquire(t, "load_write", "write", "load_replace")
    /\ UNCHANGED <<user_states, file, call, obs>>

\* As LoadReplace, but without the clear: the file is merged into the Vec.
LoadReplaceMerges(t) ==
    /\ pc[t] = "load_replace"
    /\ user_states' = user_states \o call[t].tmp
    /\ rwlock' = Released(t)
    /\ Leave(t, [call[t] EXCEPT !.ret_ok = TRUE])
    /\ UNCHANGED <<file, obs>>

\* clear, then append the deserialized Vec.
LoadReplace(t) ==
    /\ pc[t] = "load_replace"
    /\ user_states' = <<>> \o call[t].tmp
    /\ rwlock' = Released(t)
    /\ Leave(t, [call[t] EXCEPT !.ret_ok = TRUE])
    /\ UNCHANGED <<file, obs>>

\* ------------------------------------------------------------------------
\* Handlers and loops: what a task runs on top of the store calls.
\* ------------------------------------------------------------------------

\* A task that runs no handler and no loop.  text is the argument of the
\* command, msg the message being sent, sent the messages delivered.
NoFrame ==
    [fn |-> "none", at |-> "none", chat_id |-> 0, text |-> <<>>,
     user_state |-> DefaultUserState(0), msg |-> "none", sent |-> <<>>,
     tried |-> <<>>, result |-> "none", now |-> 0, last_run |-> None,
     wake |-> 0]

\* The wall clock, in seconds since midnight, when the program starts.
StartClock == 28795

\* The program right after main has spawned the two loops: no shutdown
\* signal yet, no listener has seen one, the Dispatcher is dispatching.
CalmEnv ==
    [clock |-> StartClock, ctrl_c |-> FALSE, seen |-> {},
     main |-> "dispatching", received |-> 0]

\* Nothing scanned and nothing saved yet.
NoLog ==
    [scan |-> None,
     records |-> [c \in ChatIds |-> 0],
     matched |-> [c \in ChatIds |-> 0],
     dispatched |-> [c \in ChatIds |-> 0],
     failed |-> FALSE,
     dirty |-> FALSE,
     save_failed |-> FALSE,
     save_retried |-> FALSE,
     final |-> "none"]

\* A step of a handler or a loop.
Handling(A) == A /\ UNCHANGED <<pre, prev, env, log, lookup>>

\* Largest number of commands the Dispatcher receives.
MaxCommands == 2

\* The Dispatcher receives a command and starts its handler.
Receiving(A) ==
    /\ env.received < MaxCommands
    /\ A
    /\ env' = [env EXCEPT !.received = @ + 1]
    /\ UNCHANGED <<pre, prev, log, lookup>>

\* The task runs no handler.
Free(t) == Idle(t) /\ frame[t].at \in {"none", "done"}

\* The handler fn starts for a chat with the argument text.
Run(t, fn, chat_id, text) ==
    [frame EXCEPT ![t] = [NoFrame EXCEPT !.fn = fn, !.at = "find",
                                         !.chat_id = chat_id, !.text = text]]

\* The handler fn of task t stands at label at, outside any store call.
At(t, fn, at) == frame[t].fn = fn /\ frame[t].at = at /\ Idle(t)

\* bot.send_message(chat_id, msg).await is started.
Send(t, msg) == [frame EXCEPT ![t].at = "send", ![t].msg = msg]

\* The request ends: the message is delivered (Ok) or the transport fails
\* (Err); the handler returns that result.
Reply(t) ==
    /\ frame[t].at = "send"
    /\ Idle(t)
    /\ \E delivered \in BOOLEAN :
         frame' = [frame EXCEPT
                     ![t].at = "done",
                     ![t].sent = IF delivered THEN Append(@, frame[t].msg)
                                 ELSE @,
                     ![t].result = IF delivered THEN "Ok" ELSE "Err"]
    /\ UNCHANGED <<user_states, rwlock, file, pc, call, obs>>

\* --- bot_set_timer ----------------------------------------------------------

\* Arguments of /settimer.
TimerTexts ==
    { <<"0", "8", ":", "0", "0">>,
      <<"2", "5", ":", "0", "0">>,
      <<"s", "o", "o", "n">> }

\* NaiveTime::parse_from_str(text, "%H:%M"): hour and minute of one or two
\* digits with ":" between them, within range.
parse_from_str_time(toks) ==
    LET i == IndexOf(toks, ":", 1)
        hh == SubSeq(toks, 1, i - 1)
        mm == SubSeq(toks, i + 1, Len(toks))
    IN  IF /\ i # 0
           /\ IsNatText(hh) /\ Len(hh) <= 2 /\ NatFromText(hh) <= 23
           /\ IsNatText(mm) /\ Len(mm) <= 2 /\ NatFromText(mm) <= 59
        THEN [ok |-> TRUE, secs |-> 3600 * NatFromText(hh) + 60 * NatFromText(mm)]
        ELSE [ok |-> FALSE, secs |-> 0]

\* The handler starts with find_userstate(chat_id).
BotSetTimer(t) ==
    \E c \in ChatIds, text \in TimerTexts :
        /\ Free(t)
        /\ FindOf(t, c)
        /\ frame' = Run(t, "bot_set_timer", c, text)

\* As BotSetTimerParse, but a time that does not parse clears the timer.
BotSetTimerParseClears(t) ==
    /\ At(t, "bot_set_timer", "find")
    /\ LET parsed == parse_from_str_time(frame[t].text)
           user_state == [call[t].ret_state EXCEPT
                            !.timer = IF parsed.ok THEN Some(parsed.secs)
                                      ELSE None]
       IN  /\ UpdateOf(t, user_state)
           /\ frame' = [frame EXCEPT ![t].at = "update",
                                     ![t].user_state = user_state]

\* match parse_from_str: Ok(time) sets the timer and calls update_userstate,
\* Err sends the error message.
BotSetTimerParse(t) ==
    /\ At(t, "bot_set_timer", "find")
    /\ LET parsed == parse_from_str_time(frame[t].text)
           user_state == [call[t].ret_state EXCEPT !.timer = Some(parsed.secs)]
       IN  IF parsed.ok
           THEN /\ UpdateOf(t, user_state)
                /\ frame' = [frame EXCEPT ![t].at = "update",
                                          ![t].user_state = user_state]
           ELSE /\ frame' = Send(t, "msg_error_timer_update")
                /\ UNCHANGED <<user_states, rwlock, file, pc, call, obs>>

BotSetTimerUpdated(t) ==
    /\ At(t, "bot_set_timer", "update")
    /\ frame' = Send(t, "msg_timer_updated")
    /\ UNCHANGED <<user_states, rwlock, file, pc, call, obs>>

\* --- set_language -----------------------------------------------------------

\* Arguments of /setlang and of the chooser's buttons.
LanguageTexts == { <<"d", "e">>, <<"E", "N">>, <<"f", "r">> }

\* char::to_lowercase on the letters of the arguments.
LowercaseChar(c) ==
    CASE c = "D" -> "d"
      [] c = "E" -> "e"
      [] c = "N" -> "n"
      [] OTHER -> c

\* str::to_lowercase
to_lowercase(toks) == [i \in 1..Len(toks) |-> LowercaseChar(toks[i])]

SetLanguage(t) ==
    \E c \in ChatIds, text \in LanguageTexts :
        /\ Free(t)
        /\ FindOf(t, c)
        /\ frame' = Run(t, "set_language", c, text)

\* As SetLanguageMatch, but any other argument selects English.
\* match lang_str.to_lowercase(): "de" and "en" set the language and call
\* update_userstate, anything else sends the chooser and returns.
SetLanguageMatch(t) ==
    /\ At(t, "set_language", "find")
    /\ LET lang_str == to_lowercase(frame[t].text)
           user_state == [call[t].ret_state EXCEPT
                            !.language = IF lang_str = <<"d", "e">>
                                         THEN "German" ELSE "English"]
       IN  IF lang_str = <<"d", "e">> \/ lang_str = <<"e", "n">>
           THEN /\ UpdateOf(t, user_state)
                /\ frame' = [frame EXCEPT ![t].at = "update",
                                          ![t].user_state = user_state]
           ELSE /\ frame' = Send(t, "msg_select_language")
                /\ UNCHANGED <<user_states, rwlock, file, pc, call, obs>>

SetLanguageUpdated(t) ==
    /\ At(t, "set_language", "update")
    /\ frame' = Send(t, "msg_language_set")
    /\ UNCHANGED <<user_states, rwlock, file, pc, call, obs>>

\* --- bot_unset_timer ---------------------------------------------------------

\* The handler starts with find_userstate(chat_id).
BotUnsetTimer(t) ==
    \E c \in ChatIds :
        /\ Free(t)
        /\ FindOf(t, c)
        /\ frame' = Run(t, "bot_unset_timer", c, <<>>)

\* user_state.timer = None; update_userstate(user_state.clone()).await
BotUnsetTimerFound(t) ==
    /\ At(t, "bot_unset_timer", "find")
    /\ LET user_state == [call[t].ret_state EXCEPT !.timer = None]
       IN  /\ UpdateOf(t, user_state)
           /\ frame' = [frame EXCEPT ![t].at = "update",
                                     ![t].user_state = user_state]

BotUnsetTimerUpdated(t) ==
    /\ At(t, "bot_unset_timer", "update")
    /\ frame' = Send(t, "msg_timer_unset")
    /\ UNCHANGED <<user_states, rwlock, file, pc, call, obs>>

\* --- send_user_information ---------------------------------------------------

\* The handler starts with user_state_exists(chat_id).
SendUserInformation(t) ==
    \E c \in ChatIds :
        /\ Free(t)
        /\ ExistsOf(t, c)
        /\ frame' = [Run(t, "send_user_information", c, <<>>) EXCEPT
                       ![t].at = "exists"]

\* As SendUserInformationExists, but a chat without a record gets the
\* default record stored.
SendUserInformationExistsStores(t) ==
    /\ At(t, "send_user_information", "exists")
    /\ IF call[t].ret_bool
       THEN /\ FindOf(t, frame[t].chat_id)
            /\ frame' = [frame EXCEPT ![t].at = "find"]
       ELSE /\ UpdateOf(t, DefaultUserState(frame[t].chat_id))
            /\ frame' = [frame EXCEPT ![t].at = "find"]

\* if user_state_exists: find_userstate for the text of the message; else
\* the message that no data is saved.
SendUserInformationExists(t) ==
    /\ At(t, "send_user_information", "exists")
    /\ IF call[t].ret_bool
       THEN /\ FindOf(t, frame[t].chat_id)
            /\ frame' = [frame EXCEPT ![t].at = "find"]
       ELSE /\ frame' = Send(t, "no_data_saved")
            /\ UNCHANGED <<user_states, rwlock, file, pc, call, obs>>

SendUserInformationFound(t) ==
    /\ At(t, "send_user_information", "find")
    /\ frame' = [Send(t, "data_saved") EXCEPT
                   ![t].user_state = call[t].ret_state]
    /\ UNCHANGED <<user_states, rwlock, file, pc, call, obs>>

\* --- answer: Command::Help and Command::Start --------------------------------

AnswerHelp(t) ==
    \E c \in ChatIds :
        /\ Free(t)
        /\ frame' = [frame EXCEPT ![t] =
                        [NoFrame EXCEPT !.fn = "help", !.at = "send",
                                        !.chat_id = c, !.msg = "descriptions"]]
        /\ UNCHANGED <<user_states, rwlock, file, pc, call, obs>>

AnswerStart(t) ==
    \E c \in ChatIds :
        /\ Free(t)
        /\ frame' = [frame EXCEPT ![t] =
                        [NoFrame EXCEPT !.fn = "start", !.at = "send",
                                        !.chat_id = c, !.msg = "start_text"]]
        /\ UNCHANGED <<user_states, rwlock, file, pc, call, obs>>

\* --- a handler that writes a record and reads it back ------------------------

\* The records of one chat, in the order of the Vec.
RECURSIVE RecordsOf(_, _)
RecordsOf(states, chat_id) ==
    IF states = <<>> THEN <<>>
    ELSE IF Head(states).chat_id = chat_id
         THEN <<Head(states)>> \o RecordsOf(Tail(states), chat_id)
         ELSE RecordsOf(Tail(states), chat_id)

\* The handler is between the start of its update_userstate call and the
\* return of its find_userstate call.
InFlow(t) == frame[t].fn = "upsert_then_read" /\ frame[t].at \in {"update", "find"}

\* update_userstate(s).await of a handler; from here on it is remembered
\* whether another task changes the records of that chat.
UpsertThenRead(t) ==
    \E s \in Inputs :
        /\ Free(t)
        /\ env.received < MaxCommands
        /\ env' = [env EXCEPT !.received = @ + 1]
        /\ UpdateOf(t, s)
        /\ frame' = [frame EXCEPT ![t] =
                        [NoFrame EXCEPT !.fn = "upsert_then_read",
                                        !.at = "update",
                                        !.chat_id = s.chat_id,
                                        !.user_state = s]]
        /\ log' = [log EXCEPT !.dirty = FALSE]
        /\ UNCHANGED <<pre, prev, lookup>>

\* find_userstate(chat_id).await of the same handler.
ReadBack(t) ==
    /\ At(t, "upsert_then_read", "update")
    /\ FindOf(t, frame[t].chat_id)
    /\ frame' = [frame EXCEPT ![t].at = "find"]

\* The handler returns.
ReadBackDone(t) ==
    /\ At(t, "upsert_then_read", "find")
    /\ frame' = [frame EXCEPT ![t].at = "done"]
    /\ UNCHANGED <<user_states, rwlock, file, pc, call, obs>>

\* A step of another task while the handler t runs: a change it makes to
\* the records of the handler's chat is remembered.
Beside(t, A) ==
    /\ A
    /\ log' = [log EXCEPT !.dirty =
                 \/ @
                 \/ /\ InFlow(t)
                    /\ RecordsOf(user_states', frame[t].chat_id)
                         # RecordsOf(user_states, frame[t].chat_id)]
    /\ UNCHANGED <<pre, prev, frame, env, lookup>>

\* The Dispatcher receives a command whose handler calls the store.
ReceivingCall(A) ==
    /\ env.received < MaxCommands
    /\ A
    /\ env' = [env EXCEPT !.received = @ + 1]
    /\ UNCHANGED <<pre, prev, frame, log, lookup>>

\* ------------------------------------------------------------------------
\* biblereading.rs: the schedule table and get_biblereading_for_date.  The
\* table is the sequence of lines of input/schedule.csv, a line a sequence
\* of fields and a field a sequence of tokens; the csv reader takes the
\* first line as the header.
\* ------------------------------------------------------------------------

\* const DEFAULT_YEAR: i32 = 2000
DEFAULT_YEAR == 2000

IsLeapYear(y) == (y % 4 = 0 /\ y % 100 # 0) \/ y % 400 = 0

DaysInMonth(y, m) ==
    IF m = 2 THEN (IF IsLeapYear(y) THEN 29 ELSE 28)
    ELSE IF m \in {4, 6, 9, 11} THEN 30 ELSE 31

\* chrono::NaiveDate
IsNaiveDate(y, m, d) == m \in 1..12 /\ d >= 1 /\ d <= DaysInMonth(y, m)

\* NaiveDate::with_year: None when the day does not exist in that year.
with_year(date, y) ==
    IF IsNaiveDate(y, date.month, date.day)
    THEN [ok |-> TRUE, date |-> [date EXCEPT !.year = y]]
    ELSE [ok |-> FALSE, date |-> date]

\* format!("{}-{}", string_record.get(0).unwrap(), DEFAULT_YEAR)
DateText(field) == field \o <<"-">> \o NatToText(DEFAULT_YEAR)

\* The three numbers of a text read with "%m-%d-%Y": month and day of one
\* or two digits, then the year, with "-" between them.
DateParts(toks) ==
    LET i == IndexOf(toks, "-", 1)
        rest == SubSeq(toks, i + 1, Len(toks))
        j == IndexOf(rest, "-", 1)
    IN  IF i = 0 \/ j = 0 THEN <<>>
        ELSE <<SubSeq(toks, 1, i - 1), SubSeq(rest, 1, j - 1),
               SubSeq(rest, j + 1, Len(rest))>>

\* NaiveDate::parse_from_str(text, "%m-%d-%Y")
parse_from_str_date(toks) ==
    LET parts == DateParts(toks)
    IN  IF /\ Len(parts) = 3
           /\ IsNatText(parts[1]) /\ Len(parts[1]) <= 2
           /\ IsNatText(parts[2]) /\ Len(parts[2]) <= 2
           /\ IsNatText(parts[3])
           /\ IsNaiveDate(NatFromText(parts[3]), NatFromText(parts[1]),
                          NatFromText(parts[2]))
        THEN [ok |-> TRUE,
              date |-> [year |-> NatFromText(parts[3]),
                        month |-> NatFromText(parts[1]),
                        day |-> NatFromText(parts[2])]]
        ELSE [ok |-> FALSE, date |-> [year |-> 0, month |-> 0, day |-> 0]]

NoDate == [year |-> 0, month |-> 0, day |-> 0]

\* Result<BibleReading, BibleReadingNotFoundError>: kind is "Ok" or the
\* error cause; "panic" is the unwrap of a None.
NoReading ==
    [kind |-> "none", date |-> NoDate,
     old_testament_reading |-> <<>>, new_testament_reading |-> <<>>]

ReadingError(cause) == [NoReading EXCEPT !.kind = cause]

\* As ReadingOf, with the two reference columns exchanged.
ReadingOfExchanged(date, string_record) ==
    [kind |-> "Ok", date |-> date,
     old_testament_reading |-> string_record[2],
     new_testament_reading |-> string_record[3]]

\* BibleReading { date, old_testament_reading: get(2), new_testament_reading:
\* get(1) }; get counts from 0.
ReadingOf(date, string_record) ==
    [kind |-> "Ok", date |-> date,
     old_testament_reading |-> string_record[3],
     new_testament_reading |-> string_record[2]]

\* csv_reader.into_records() with the Reader's defaults: the first line is
\* the header and is not yielded, and a line whose number of fields differs
\* from the header's is yielded as Err(UnequalLengths).
RecordIsOk(lines, i) == Len(lines[i]) = Len(lines[1])

\* The for loop over the records from line i on.
RECURSIVE ForRecords(_, _, _)
ForRecords(lines, i, search_date) ==
    IF i > Len(lines) THEN ReadingError("DateDoesNotExist")
    ELSE IF ~RecordIsOk(lines, i) THEN ForRecords(lines, i + 1, search_date)
    ELSE IF Len(lines[i]) # 3 THEN ReadingError("InvalidFormat")
    ELSE LET parsed == parse_from_str_date(DateText(lines[i][1]))
         IN  IF ~parsed.ok THEN ReadingError("InvalidFormat")
             ELSE LET normalized == with_year(parsed.date, DEFAULT_YEAR)
                  IN  IF ~normalized.ok THEN ReadingError("panic")
                      ELSE IF normalized.date = search_date
                           THEN ReadingOf(normalized.date, lines[i])
                           ELSE ForRecords(lines, i + 1, search_date)

\* fn get_biblereading_for_date(search_date)
get_biblereading_for_date(table, date) ==
    LET search_date == with_year(date, DEFAULT_YEAR)
    IN  IF ~search_date.ok THEN ReadingError("panic")
        ELSE IF ~table.exists THEN ReadingError("InputFileNotFound")
        ELSE ForRecords(table.lines, 2, search_date.date)

NoLookup ==
    [table |-> [exists |-> FALSE, lines |-> <<>>], date |-> NoDate,
     result |-> NoReading]

\* One call of get_biblereading_for_date.
LookupCall ==
    /\ lookup.result.kind = "none"
    /\ lookup.date # NoDate
    /\ lookup' = [lookup EXCEPT
                    !.result = get_biblereading_for_date(lookup.table,
                                                         lookup.date)]
    /\ UNCHANGED <<user_states, rwlock, file, pc, call, obs, pre, prev,
                   frame, env, log>>

\* --- send_daily_reminder ------------------------------------------------------

\* The task has been spawned for send_daily_reminder(chat_id).
ReminderFrame(chat_id) ==
    [NoFrame EXCEPT !.fn = "send_daily_reminder", !.at = "start",
                    !.chat_id = chat_id]

\* The spawned task starts with find_userstate(chat_id).
ReminderFind(t) ==
    /\ At(t, "send_daily_reminder", "start")
    /\ FindOf(t, frame[t].chat_id)
    /\ frame' = [frame EXCEPT ![t].at = "find"]

\* get_todays_biblereading(): the lookup of the local date of today in the
\* schedule file.
get_todays_biblereading == get_biblereading_for_date(lookup.table, lookup.date)

\* A request to Telegram and how it ended, with the language of its text.
Request(msg, language, delivered) ==
    [msg |-> msg, language |-> language, ok |-> delivered]

\* As ReminderLookup, but nothing is sent when the lookup fails: the task
\* goes on to the poll.
ReminderLookupSkipsFallback(t) ==
    /\ At(t, "send_daily_reminder", "find")
    /\ frame' = [frame EXCEPT
                   ![t].at = IF get_todays_biblereading.kind = "Ok"
                             THEN "text" ELSE "poll",
                   ![t].user_state = call[t].ret_state,
                   ![t].msg = "msg_biblereading"]
    /\ UNCHANGED <<user_states, rwlock, file, pc, call, obs>>

\* match get_todays_biblereading(): Ok starts the send of the reading, Err
\* the send of the fallback message; a panic of the lookup ends the task.
ReminderLookup(t) ==
    /\ At(t, "send_daily_reminder", "find")
    /\ LET todays_biblereading == get_todays_biblereading
       IN  frame' = [frame EXCEPT
                       ![t].at = IF todays_biblereading.kind = "panic"
                                 THEN "panicked" ELSE "text",
                       ![t].user_state = call[t].ret_state,
                       ![t].msg = IF todays_biblereading.kind = "Ok"
                                  THEN "msg_biblereading"
                                  ELSE "msg_biblereading_not_found"]
    /\ UNCHANGED <<user_states, rwlock, file, pc, call, obs>>

\* The send_message request ends; its result is logged, and send_poll is
\* started either way.
ReminderText(t) ==
    /\ At(t, "send_daily_reminder", "text")
    /\ \E delivered \in BOOLEAN :
         frame' = [frame EXCEPT
                     ![t].at = "poll",
                     ![t].sent = IF delivered THEN Append(@, frame[t].msg)
                                 ELSE @,
                     ![t].tried = Append(@, Request(frame[t].msg,
                                                    frame[t].user_state.language,
                                                    delivered))]
    /\ UNCHANGED <<user_states, rwlock, file, pc, call, obs>>

\* The send_poll request ends and its result is returned.  The task that
\* the scheduler spawned logs it and ends; answer hands an Err on to the
\* Dispatcher.
ReminderPoll(t) ==
    /\ At(t, "send_daily_reminder", "poll")
    /\ \E delivered \in BOOLEAN :
         /\ frame' = [frame EXCEPT ![t] =
                        IF t \in Workers THEN NoFrame
                        ELSE [@ EXCEPT
                                !.at = "done",
                                !.msg = "msg_poll_text",
                                !.sent = IF delivered
                                         THEN Append(@, "msg_poll_text") ELSE @,
                                !.tried = Append(@, Request("msg_poll_text",
                                              frame[t].user_state.language,
                                              delivered)),
                                !.result = IF delivered THEN "Ok" ELSE "Err"]]
         /\ log' = [log EXCEPT !.failed = @ \/ ~delivered]
    /\ call' = [call EXCEPT ![t] = IF t \in Workers THEN NoCall ELSE @]
    /\ obs' = [obs EXCEPT ![t] = IF t \in Workers THEN NoObs ELSE @]
    /\ UNCHANGED <<user_states, rwlock, file, pc>>
    /\ UNCHANGED <<pre, prev, env, lookup>>

\* answer: Command::SendDailyReminder runs send_daily_reminder for the chat
\* of the message.
AnswerSendDailyReminder(t) ==
    \E c \in ChatIds :
        /\ Free(t)
        /\ frame' = [frame EXCEPT ![t] = ReminderFrame(c)]
        /\ UNCHANGED <<user_states, rwlock, file, pc, call, obs>>

\* --- run_timer_thread_loop ------------------------------------------------

\* tokio::time::sleep(Duration::from_secs(5))
TimerSleepSecs == 5

\* Seconds of a day.
DaySecs == 86400

\* chrono::offset::Local::now().naive_local().time()
LocalTime == env.clock % DaySecs

\* The loop right after the function was spawned: last_run is None.
TimerFrame ==
    [NoFrame EXCEPT !.fn = "run_timer_thread_loop", !.at = "while"]

\* last_run.is_none() || hour or minute of last_run differ from now's
Due(last_run, now) ==
    \/ ~last_run.some
    \/ Hour(last_run.secs) # Hour(now)
    \/ Minute(last_run.secs) # Minute(now)

\* u.timer.is_some() && hour and minute of the timer are now's
Matches(u, now) ==
    /\ u.timer.some
    /\ Hour(u.timer.secs) = Hour(now)
    /\ Minute(u.timer.secs) = Minute(now)

\* The chat ids of the records that match now, in the order of the Vec.
RECURSIVE Matching(_, _)
Matching(states, now) ==
    IF states = <<>> THEN <<>>
    ELSE IF Matches(Head(states), now)
         THEN <<Head(states).chat_id>> \o Matching(Tail(states), now)
         ELSE Matching(Tail(states), now)

\* The workers that run no task.
FreeWorkers == {w \in Workers : frame[w].fn = "none"}

\* tokio::spawn of one send_daily_reminder task per chat id of chats, each
\* on the lowest worker that is free.
RECURSIVE Spawned(_, _, _)
Spawned(frames, chats, free) ==
    IF chats = <<>> THEN frames
    ELSE LET w == CHOOSE x \in free : \A y \in free : x <= y
         IN  Spawned([frames EXCEPT ![w] = ReminderFrame(Head(chats))],
                     Tail(chats), free \ {w})

\* How often chat_id occurs in chats.
Count(chats, chat_id) ==
    Cardinality({i \in 1..Len(chats) : chats[i] = chat_id})

\* The while condition, then now and the test of last_run: the loop ends
\* when the ctrl-c listener has finished, goes for the read guard when the
\* minute is due, and otherwise sets last_run and sleeps.
TimerWhile ==
    /\ frame[Scheduler].fn = "run_timer_thread_loop"
    /\ frame[Scheduler].at = "while"
    /\ IF Scheduler \in env.seen
       THEN /\ frame' = [frame EXCEPT ![Scheduler].at = "exited"]
            /\ pc' = pc
       ELSE IF Due(frame[Scheduler].last_run, LocalTime)
            THEN /\ frame' = [frame EXCEPT ![Scheduler].at = "scan",
                                           ![Scheduler].now = LocalTime]
                 /\ pc' = [pc EXCEPT ![Scheduler] = "timer_read"]
            ELSE /\ frame' = [frame EXCEPT
                                ![Scheduler].at = "sleep",
                                ![Scheduler].now = LocalTime,
                                ![Scheduler].last_run = Some(LocalTime),
                                ![Scheduler].wake = env.clock + TimerSleepSecs]
                 /\ pc' = pc
    /\ UNCHANGED <<user_states, rwlock, file, call, obs>>
    /\ UNCHANGED <<pre, prev, env, log, lookup>>

\* user_states.read().await of the for statement.
TimerRead ==
    /\ Acquire(Scheduler, "timer_read", "read", "timer_scan")
    /\ UNCHANGED <<user_states, file, call, obs>>
    /\ UNCHANGED <<pre, prev, frame, env, log, lookup>>

\* As TimerScan, but the loop over the records is left after the first
\* record that matches.
TimerScanFirstOnly ==
    /\ pc[Scheduler] = "timer_scan"
    /\ LET now == frame[Scheduler].now
           all == Matching(user_states, now)
           chats == IF all = <<>> THEN <<>> ELSE <<Head(all)>>
           again == /\ log.scan.some
                    /\ Hour(log.scan.secs) = Hour(now)
                    /\ Minute(log.scan.secs) = Minute(now)
       IN  /\ Len(chats) <= Cardinality(FreeWorkers)
           /\ frame' = [Spawned(frame, chats, FreeWorkers) EXCEPT
                          ![Scheduler].at = "sleep",
                          ![Scheduler].last_run = Some(now),
                          ![Scheduler].wake = env.clock + TimerSleepSecs]
           /\ log' = [log EXCEPT
                        !.scan = Some(now),
                        !.records = [c \in ChatIds |-> CountChat(user_states, c)],
                        !.matched = [c \in ChatIds |-> Count(all, c)],
                        !.dispatched = [c \in ChatIds |->
                            (IF again THEN log.dispatched[c] ELSE 0)
                            + Count(chats, c)]]
    /\ rwlock' = Released(Scheduler)
    /\ pc' = [pc EXCEPT ![Scheduler] = "idle"]
    /\ UNCHANGED <<user_states, file, call, obs>>
    /\ UNCHANGED <<pre, prev, env, lookup>>

\* The for loop under the read guard: one task is spawned per record that
\* matches now, none is awaited; then the guard is dropped, last_run is set
\* and the loop sleeps.  What was scanned and spawned is remembered, per
\* minute.
TimerScan ==
    /\ pc[Scheduler] = "timer_scan"
    /\ LET now == frame[Scheduler].now
           chats == Matching(user_states, now)
           again == /\ log.scan.some
                    /\ Hour(log.scan.secs) = Hour(now)
                    /\ Minute(log.scan.secs) = Minute(now)
       IN  /\ Len(chats) <= Cardinality(FreeWorkers)
           /\ frame' = [Spawned(frame, chats, FreeWorkers) EXCEPT
                          ![Scheduler].at = "sleep",
                          ![Scheduler].last_run = Some(now),
                          ![Scheduler].wake = env.clock + TimerSleepSecs]
           /\ log' = [log EXCEPT
                        !.scan = Some(now),
                        !.records = [c \in ChatIds |-> CountChat(user_states, c)],
                        !.matched = [c \in ChatIds |-> Count(chats, c)],
                        !.dispatched = [c \in ChatIds |->
                            (IF again THEN log.dispatched[c] ELSE 0)
                            + Count(chats, c)]]
    /\ rwlock' = Released(Scheduler)
    /\ pc' = [pc EXCEPT ![Scheduler] = "idle"]
    /\ UNCHANGED <<user_states, file, call, obs>>
    /\ UNCHANGED <<pre, prev, env, lookup>>

\* The sleep ends once its five seconds have passed.
TimerSleep ==
    /\ frame[Scheduler].fn = "run_timer_thread_loop"
    /\ frame[Scheduler].at = "sleep"
    /\ env.clock >= frame[Scheduler].wake
    /\ frame' = [frame EXCEPT ![Scheduler].at = "while"]
    /\ UNCHANGED <<user_states, rwlock, file, pc, call, obs>>
    /\ UNCHANGED <<pre, prev, env, log, lookup>>

\* Largest number of steps of the wall clock.
MaxTicks == 13

\* The wall clock moves on by the length of one sleep.
Tick ==
    /\ env.clock < StartClock + MaxTicks * TimerSleepSecs
    /\ env' = [env EXCEPT !.clock = @ + TimerSleepSecs]
    /\ UNCHANGED <<user_states, rwlock, file, pc, call, obs>>
    /\ UNCHANGED <<pre, prev, frame, log, lookup>>

\* --- handle_save_current_userstates and run_save_userstate_loop -----------

\* The task has been spawned for handle_save_current_userstates.
SaveFrame ==
    [NoFrame EXCEPT !.fn = "handle_save_current_userstates", !.at = "start"]

\* write_states_to_file(&user_state_file).await of a spawned task.
SaveWrite(w) ==
    /\ At(w, "handle_save_current_userstates", "start")
    /\ StartWrite(w)
    /\ frame' = [frame EXCEPT ![w].at = "write"]
    /\ UNCHANGED <<pre, prev, env, log, lookup>>

\* As SaveLogged, but a snapshot that failed ends the persistence loop.
SaveLoggedEndsLoop(w) ==
    /\ At(w, "handle_save_current_userstates", "write")
    /\ frame' = [frame EXCEPT
                   ![w] = NoFrame,
                   ![Saver].at = IF call[w].ret_ok THEN @ ELSE "exited"]
    /\ log' = [log EXCEPT
                 !.save_failed = @ \/ ~call[w].ret_ok]
    /\ call' = [call EXCEPT ![w] = NoCall]
    /\ UNCHANGED <<user_states, rwlock, file, pc, obs>>
    /\ UNCHANGED <<pre, prev, env, lookup>>

\* match write_states_to_file: Ok is logged with info!, Err with warn!; the
\* spawned task ends.
SaveLogged(w) ==
    /\ At(w, "handle_save_current_userstates", "write")
    /\ frame' = [frame EXCEPT ![w] = NoFrame]
    /\ log' = [log EXCEPT
                 !.save_failed = @ \/ ~call[w].ret_ok]
    /\ call' = [call EXCEPT ![w] = NoCall]
    /\ UNCHANGED <<user_states, rwlock, file, pc, obs>>
    /\ UNCHANGED <<pre, prev, env, lookup>>

\* tokio::time::sleep(time::Duration::from_secs(30))
SaveSleepSecs == 30

\* The loop right after the function was spawned.
SaverFrame ==
    [NoFrame EXCEPT !.fn = "run_save_userstate_loop", !.at = "loop"]

\* The body of the loop up to the sleep: a task is spawned for the periodic
\* snapshot, on the lowest worker that is free, and is not awaited.  The
\* loop comes here at its start and when the sleep has ended and the ctrl-c
\* listener has not finished.
SaverSpawn ==
    /\ frame[Saver].fn = "run_save_userstate_loop"
    /\ \/ frame[Saver].at = "loop"
       \/ /\ frame[Saver].at = "sleep"
          /\ env.clock >= frame[Saver].wake
          /\ Saver \notin env.seen
    /\ FreeWorkers # {}
    /\ LET w == CHOOSE x \in FreeWorkers : \A y \in FreeWorkers : x <= y
       IN  frame' = [frame EXCEPT
                       ![w] = SaveFrame,
                       ![Saver].at = "sleep",
                       ![Saver].wake = env.clock + SaveSleepSecs]
    /\ log' = [log EXCEPT !.save_retried = @ \/ log.save_failed]
    /\ UNCHANGED <<user_states, rwlock, file, pc, call, obs>>
    /\ UNCHANGED <<pre, prev, env, lookup>>

\* The sleep has ended and the ctrl-c listener has finished: the final
\* snapshot is awaited in the loop's own task.
SaverFinal ==
    /\ frame[Saver].fn = "run_save_userstate_loop"
    /\ frame[Saver].at = "sleep"
    /\ env.clock >= frame[Saver].wake
    /\ Saver \in env.seen
    /\ StartWrite(Saver)
    /\ frame' = [frame EXCEPT ![Saver].at = "final"]
    /\ UNCHANGED <<pre, prev, env, log, lookup>>

\* The final snapshot has returned and is logged; break.
SaverExit ==
    /\ At(Saver, "run_save_userstate_loop", "final")
    /\ frame' = [frame EXCEPT ![Saver].at = "exited"]
    /\ log' = [log EXCEPT !.final = IF call[Saver].ret_ok THEN "Ok" ELSE "Err"]
    /\ UNCHANGED <<user_states, rwlock, file, pc, call, obs>>
    /\ UNCHANGED <<pre, prev, env, lookup>>

\* --- shutdown -----------------------------------------------------------------

\* The process receives SIGINT.
CtrlC ==
    /\ ~env.ctrl_c
    /\ env' = [env EXCEPT !.ctrl_c = TRUE]
    /\ UNCHANGED <<user_states, rwlock, file, pc, call, obs>>
    /\ UNCHANGED <<pre, prev, frame, log, lookup>>

\* The task a loop spawned around signal::ctrl_c().await finishes, so that
\* control_c_pressed.is_finished() is true from now on.
ListenerEnds(l) ==
    /\ env.ctrl_c
    /\ l \notin env.seen
    /\ env' = [env EXCEPT !.seen = @ \cup {l}]
    /\ UNCHANGED <<user_states, rwlock, file, pc, call, obs>>
    /\ UNCHANGED <<pre, prev, frame, log, lookup>>

\* A task that is dropped where it stands.
Cancelled(f) ==
    IF f.fn = "none" \/ f.at \in {"exited", "done"} THEN f
    ELSE [f EXCEPT !.at = "cancelled"]

\* The Dispatcher's ctrl-c handler: when no handler runs any more,
\* dispatch() returns and main returns with it; the runtime is dropped and
\* every spawned task is dropped at the await where it stands.  main joins
\* neither loop.
MainReturns ==
    /\ env.ctrl_c
    /\ env.main = "dispatching"
    /\ \A t \in Tasks : Free(t)
    /\ env' = [env EXCEPT !.main = "returned"]
    /\ frame' = [t \in Procs |-> Cancelled(frame[t])]
    /\ UNCHANGED <<user_states, rwlock, file, pc, call, obs>>
    /\ UNCHANGED <<pre, prev, log, lookup>>

\* A step of a task while the runtime is up.
Up(A) == env.main = "dispatching" /\ A

\* Five seconds pass while the scheduler loop sleeps: what the loop does
\* between two sleeps takes far less than a tick.
Asleep(A) == frame[Scheduler].at \in {"sleep", "exited"} /\ A

\* tokio::fs::write runs std::fs::write on a blocking thread; once it has
\* opened the file it runs to its end even when the runtime is dropped.
Blocking(A) == A

\* No handler, no loop and no lookup runs.
Quiet ==
    /\ frame = [t \in Procs |-> NoFrame]
    /\ env = CalmEnv
    /\ log = NoLog
    /\ lookup = NoLookup

\* ------------------------------------------------------------------------
\* Specification Spec: the tasks call the in-memory operations and load
\* concurrently on one store.
\* ------------------------------------------------------------------------

\* Files a previous run of the program may have left behind.
StartFiles ==
    { MissingFile,
      FileWith(<<>>),
      FileWith(to_string_pretty(<<>>)),
      FileWith(to_string_pretty(
          <<[chat_id |-> 7, language |-> "German", timer |-> Some(28800)]>>)) }

Init ==
    /\ user_states = <<>>
    /\ rwlock = FreeLock
    /\ file \in StartFiles
    /\ pc = [t \in Procs |-> "idle"]
    /\ call = [t \in Procs |-> NoCall]
    /\ obs = [t \in Procs |-> NoObs]
    /\ pre = [user_states |-> <<>>, file |-> MissingFile]
    /\ prev = NoPrev
    /\ Quiet

\* A step of a concurrent task: nothing is remembered about the sequential
\* caller.
Concurrently(A) == A /\ UNCHANGED <<pre, prev>> /\ UNCHANGED beyond

Next ==
    \E t \in Tasks :
        \/ Concurrently(StartExists(t))
        \/ Concurrently(ExistsRead(t))
        \/ Concurrently(ExistsScan(t))
        \/ Concurrently(StartFind(t))
        \/ Concurrently(FindRead(t))
        \/ Concurrently(FindScan(t))
        \/ Concurrently(StartUpdate(t))
        \/ Concurrently(UpdateWrite1(t))
        \/ Concurrently(UpdateScan(t))
        \/ Concurrently(UpdateWrite2(t))
        \/ Concurrently(UpdatePush(t))
        \/ Concurrently(StartLoad(t))
        \/ Concurrently(LoadRead(t))
        \/ Concurrently(LoadWrite(t))
        \/ Concurrently(LoadReplace(t))

Spec == Init /\ [][Next]_vars

\* ------------------------------------------------------------------------
\* Specification SpecSeq: one caller makes the store calls one after the
\* other.  The store and the file at the start of its call, and the call
\* before it, are remembered.
\* ------------------------------------------------------------------------

Caller == 1

\* A step of the sequential caller: when it enters a call, the store, the
\* file and its previous call are remembered.
Sequentially(A) ==
    /\ A
    /\ IF Idle(Caller)
       THEN /\ pre' = [user_states |-> user_states, file |-> file]
            /\ prev' = [call |-> call[Caller], absent |-> obs[Caller].absent]
       ELSE UNCHANGED <<pre, prev>>
    /\ UNCHANGED beyond

SeqNext ==
    \/ Sequentially(StartExists(Caller))
    \/ Sequentially(ExistsRead(Caller))
    \/ Sequentially(ExistsScan(Caller))
    \/ Sequentially(StartFind(Caller))
    \/ Sequentially(FindRead(Caller))
    \/ Sequentially(FindScan(Caller))
    \/ Sequentially(StartUpdate(Caller))
    \/ Sequentially(UpdateWrite1(Caller))
    \/ Sequentially(UpdateScan(Caller))
    \/ Sequentially(UpdateWrite2(Caller))
    \/ Sequentially(UpdatePush(Caller))
    \/ Sequentially(StartWrite(Caller))
    \/ Sequentially(WriteRead(Caller))
    \/ Sequentially(WriteCreate(Caller))
    \/ Sequentially(WriteAll(Caller))
    \/ Sequentially(StartLoad(Caller))
    \/ Sequentially(LoadRead(Caller))
    \/ Sequentially(LoadWrite(Caller))
    \/ Sequentially(LoadReplace(Caller))

SpecSeq == Init /\ [][SeqNext]_vars

\* The caller's last call has returned and was a call of op.
Returned(op) == Idle(Caller) /\ call[Caller].op = op

\* The call before the caller's last call was a call of op.
Before(op) == prev.call.op = op

\* ------------------------------------------------------------------------
\* Specification SpecRoundTrip: a store holding any collection of up to
\* MaxRecords records is saved, and the file is then loaded into a fresh
\* store.
\* ------------------------------------------------------------------------

\* Largest collection that is saved and loaded back.
MaxRecords == 2

RECURSIVE SeqsUpTo(_, _)
SeqsUpTo(S, n) ==
    IF n = 0 THEN {<<>>}
    ELSE LET shorter == SeqsUpTo(S, n - 1)
         IN  shorter \cup {Append(q, x) : q \in shorter, x \in S}

RoundTripInit ==
    /\ user_states \in SeqsUpTo(UserState, MaxRecords)
    /\ rwlock = FreeLock
    /\ file \in StartFiles
    /\ pc = [t \in Procs |-> "idle"]
    /\ call = [t \in Procs |-> NoCall]
    /\ obs = [t \in Procs |-> NoObs]
    /\ pre = [user_states |-> user_states, file |-> file]
    /\ prev = NoPrev
    /\ Quiet

RoundTripNext ==
    \/ /\ call[Caller].op = "none"
       /\ Concurrently(StartWrite(Caller))
    \/ Concurrently(WriteRead(Caller))
    \/ Concurrently(WriteCreate(Caller))
    \/ Concurrently(WriteAll(Caller))
    \/ /\ Returned("write")
       /\ New(Caller)
       /\ prev' = [call |-> call[Caller], absent |-> FALSE]
       /\ pre' = pre
       /\ UNCHANGED beyond
    \/ /\ Returned("new")
       /\ Concurrently(StartLoad(Caller))
    \/ Concurrently(LoadRead(Caller))
    \/ Concurrently(LoadWrite(Caller))
    \/ Concurrently(LoadReplace(Caller))

SpecRoundTrip == RoundTripInit /\ [][RoundTripNext]_vars

\* ------------------------------------------------------------------------
\* Specification SpecSchedule: get_biblereading_for_date is called once on
\* a schedule table of a header and up to MaxRows rows and a search date.
\* ------------------------------------------------------------------------

\* Largest number of data rows of a schedule table.
MaxRows == 3

HeaderLine == << <<"date">>, <<"nt">>, <<"ot">> >>

ShortHeaderLine == << <<"date">>, <<"reading">> >>

\* The line the test date_can_be_found expects for September 1st.
SeptemberLine ==
    << <<"0", "9", "-", "0", "1">>, <<"1Kor12">>, <<"Psalm 135,136">> >>

LeapDayLine ==
    << <<"0", "2", "-", "2", "9">>, <<"Mk1">>, <<"Gen1">> >>

\* February 30th: three columns and a date that does not parse.
BadDateLine ==
    << <<"0", "2", "-", "3", "0">>, <<"Mk2">>, <<"Gen2">> >>

\* Two columns.
ShortLine == << <<"0", "9", "-", "0", "1">>, <<"1Kor13">> >>

\* First lines of the file: the csv reader takes any first line as the
\* header.
FirstLines == {HeaderLine, ShortHeaderLine, SeptemberLine}

DataLines == {SeptemberLine, LeapDayLine, BadDateLine, ShortLine}

\* No file, an empty file, or a first line followed by data rows.
Tables ==
    {[exists |-> FALSE, lines |-> <<>>], [exists |-> TRUE, lines |-> <<>>]}
    \cup {[exists |-> TRUE, lines |-> <<h>> \o rows] :
             h \in FirstLines, rows \in SeqsUpTo(DataLines, MaxRows)}

SearchDates ==
    { [year |-> 2024, month |-> 9, day |-> 1],
      [year |-> 2024, month |-> 2, day |-> 29],
      [year |-> 2023, month |-> 12, day |-> 24] }

ScheduleInit ==
    /\ user_states = <<>>
    /\ rwlock = FreeLock
    /\ file = MissingFile
    /\ pc = [t \in Procs |-> "idle"]
    /\ call = [t \in Procs |-> NoCall]
    /\ obs = [t \in Procs |-> NoObs]
    /\ pre = [user_states |-> <<>>, file |-> MissingFile]
    /\ prev = NoPrev
    /\ frame = [t \in Procs |-> NoFrame]
    /\ env = CalmEnv
    /\ log = NoLog
    /\ lookup \in [table : Tables, date : SearchDates, result : {NoReading}]

ScheduleNext == LookupCall

SpecSchedule == ScheduleInit /\ [][ScheduleNext]_vars

\* ------------------------------------------------------------------------
\* Specification SpecHandlers: the Dispatcher runs the handlers of the
\* preference commands concurrently on one store, each with any argument.
\* ------------------------------------------------------------------------

HandlersInit ==
    /\ user_states = <<>>
    /\ rwlock = FreeLock
    /\ file = MissingFile
    /\ pc = [t \in Procs |-> "idle"]
    /\ call = [t \in Procs |-> NoCall]
    /\ obs = [t \in Procs |-> NoObs]
    /\ pre = [user_states |-> <<>>, file |-> MissingFile]
    /\ prev = NoPrev
    /\ Quiet

HandlersNext ==
    \E t \in Tasks :
        \/ Receiving(BotSetTimer(t))
        \/ Handling(BotSetTimerParse(t))
        \/ Handling(BotSetTimerUpdated(t))
        \/ Receiving(SetLanguage(t))
        \/ Handling(SetLanguageMatch(t))
        \/ Handling(SetLanguageUpdated(t))
        \/ Handling(Reply(t))
        \/ Concurrently(FindRead(t))
        \/ Concurrently(FindScan(t))
        \/ Concurrently(UpdateWrite1(t))
        \/ Concurrently(UpdateScan(t))
        \/ Concurrently(UpdateWrite2(t))
        \/ Concurrently(UpdatePush(t))

SpecHandlers == HandlersInit /\ [][HandlersNext]_vars

\* ------------------------------------------------------------------------
\* Specification SpecReadBack: one handler writes a record and reads it
\* back while another handler task calls the store and the persistence
\* loop's task takes snapshots.
\* ------------------------------------------------------------------------

Other == 2

ReadBackNext ==
    \/ UpsertThenRead(Caller)
    \/ Handling(ReadBack(Caller))
    \/ Handling(ReadBackDone(Caller))
    \/ Concurrently(UpdateWrite1(Caller))
    \/ Concurrently(UpdateScan(Caller))
    \/ Concurrently(UpdateWrite2(Caller))
    \/ Concurrently(UpdatePush(Caller))
    \/ Concurrently(FindRead(Caller))
    \/ Concurrently(FindScan(Caller))
    \/ ReceivingCall(StartFind(Other))
    \/ Beside(Caller, FindRead(Other))
    \/ Beside(Caller, FindScan(Other))
    \/ ReceivingCall(StartUpdate(Other))
    \/ Beside(Caller, UpdateWrite1(Other))
    \/ Beside(Caller, UpdateScan(Other))
    \/ Beside(Caller, UpdateWrite2(Other))
    \/ Beside(Caller, UpdatePush(Other))
    \/ Beside(Caller, StartWrite(Saver))
    \/ Beside(Caller, WriteRead(Saver))
    \/ Beside(Caller, WriteCreate(Saver))
    \/ Beside(Caller, WriteAll(Saver))

SpecReadBack == HandlersInit /\ [][ReadBackNext]_vars

\* ------------------------------------------------------------------------
\* Specification SpecTimer: main has loaded the state file and spawned
\* run_timer_thread_loop; the wall clock runs from 07:59:55 on, and the
\* reminder tasks the loop spawns run beside it.
\* ------------------------------------------------------------------------

\* State files a previous run may have left behind: none, two chats with
\* the timer 08:00, one chat stored twice, a chat without a timer and a chat
\* with the timer 23:59:59.
TimerFiles ==
    { MissingFile,
      FileWith(to_string_pretty(
          << [chat_id |-> 7, language |-> "German", timer |-> Some(28800)],
             [chat_id |-> -12, language |-> "English", timer |-> Some(28800)] >>)),
      FileWith(to_string_pretty(
          << [chat_id |-> 7, language |-> "German", timer |-> Some(28800)],
             [chat_id |-> 7, language |-> "English", timer |-> Some(28800)] >>)),
      FileWith(to_string_pretty(
          << [chat_id |-> 7, language |-> "German", timer |-> None],
             [chat_id |-> -12, language |-> "German", timer |-> Some(86399)] >>)) }

\* The Vec after main's load_states_from_file on a new wrapper.
Loaded(f) ==
    IF f.exists /\ from_str(f.text).ok THEN from_str(f.text).value ELSE <<>>

\* The schedule file and the date of today: the file lists today, or there
\* is no file.
TodayListed ==
    [table |-> [exists |-> TRUE, lines |-> <<HeaderLine, SeptemberLine>>],
     date |-> [year |-> 2024, month |-> 9, day |-> 1],
     result |-> NoReading]

Schedules ==
    { TodayListed,
      [TodayListed EXCEPT !.table = [exists |-> FALSE, lines |-> <<>>]] }

TimerInit ==
    /\ file \in TimerFiles
    /\ user_states = Loaded(file)
    /\ rwlock = FreeLock
    /\ pc = [t \in Procs |-> "idle"]
    /\ call = [t \in Procs |-> NoCall]
    /\ obs = [t \in Procs |-> NoObs]
    /\ pre = [user_states |-> <<>>, file |-> MissingFile]
    /\ prev = NoPrev
    /\ frame = [t \in Procs |-> IF t = Scheduler THEN TimerFrame ELSE NoFrame]
    /\ env = CalmEnv
    /\ log = NoLog
    /\ lookup \in Schedules

TimerNext ==
    \/ TimerWhile
    \/ TimerRead
    \/ TimerScan
    \/ TimerSleep
    \/ Tick
    \/ \E w \in Workers :
          \/ Handling(ReminderFind(w))
          \/ Concurrently(FindRead(w))
          \/ Concurrently(FindScan(w))
          \/ Handling(ReminderLookup(w))
          \/ Handling(ReminderText(w))
          \/ ReminderPoll(w)

SpecTimer == TimerInit /\ [][TimerNext]_vars

\* ------------------------------------------------------------------------
\* Specification SpecShutdown: main has loaded the state file and spawned
\* both loops; the wall clock runs, the persistence loop's snapshots are
\* taken, the shutdown signal arrives and main returns.
\* ------------------------------------------------------------------------

\* State files a previous run may have left behind.
ShutdownFiles ==
    { MissingFile,
      FileWith(to_string_pretty(
          << [chat_id |-> 7, language |-> "German", timer |-> Some(86399)] >>)) }

\* main starts SaveSleepSecs and one tick before the last tick of the clock.
ShutdownClock == StartClock + (MaxTicks * TimerSleepSecs) - SaveSleepSecs - TimerSleepSecs

ShutdownInit ==
    /\ file \in ShutdownFiles
    /\ user_states = Loaded(file)
    /\ rwlock = FreeLock
    /\ pc = [t \in Procs |-> "idle"]
    /\ call = [t \in Procs |-> NoCall]
    /\ obs = [t \in Procs |-> NoObs]
    /\ pre = [user_states |-> <<>>, file |-> MissingFile]
    /\ prev = NoPrev
    /\ frame = [t \in Procs |->
                  IF t = Scheduler THEN TimerFrame
                  ELSE IF t = Saver THEN SaverFrame ELSE NoFrame]
    /\ env = [CalmEnv EXCEPT !.clock = ShutdownClock]
    /\ log = NoLog
    /\ lookup = NoLookup

ShutdownNext ==
    \/ Up(TimerWhile)
    \/ Up(TimerRead)
    \/ Up(TimerScan)
    \/ Up(TimerSleep)
    \/ Up(Asleep(Tick))
    \/ Up(SaverSpawn)
    \/ Up(SaverFinal)
    \/ Up(SaverExit)
    \/ CtrlC
    \/ \E l \in {Scheduler, Saver} : Up(ListenerEnds(l))
    \/ MainReturns
    \/ \E w \in Workers :
          \/ Up(SaveWrite(w))
          \/ Up(SaveLogged(w))
    \/ \E t \in Workers \cup {Saver} :
          \/ Up(Concurrently(WriteRead(t)))
          \/ Up(Concurrently(WriteCreate(t)))
          \/ Blocking(Concurrently(WriteAll(t)))

SpecShutdown == ShutdownInit /\ [][ShutdownNext]_vars

\* ------------------------------------------------------------------------
\* Specification SpecSave: the persistence loop takes its periodic
\* snapshots, each of which may fail, while a handler task calls
\* find_userstate and update_userstate.
\* ------------------------------------------------------------------------

SaveInit ==
    /\ user_states = <<>>
    /\ rwlock = FreeLock
    /\ file = MissingFile
    /\ pc = [t \in Procs |-> "idle"]
    /\ call = [t \in Procs |-> NoCall]
    /\ obs = [t \in Procs |-> NoObs]
    /\ pre = [user_states |-> <<>>, file |-> MissingFile]
    /\ prev = NoPrev
    /\ frame = [t \in Procs |-> IF t = Saver THEN SaverFrame ELSE NoFrame]
    /\ env = [CalmEnv EXCEPT !.clock = ShutdownClock]
    /\ log = NoLog
    /\ lookup = NoLookup

SaveNext ==
    \/ Tick
    \/ SaverSpawn
    \/ \E w \in Workers :
          \/ SaveWrite(w)
          \/ SaveLogged(w)
          \/ Concurrently(WriteRead(w))
          \/ Concurrently(WriteCreate(w))
          \/ Concurrently(WriteAll(w))
    \/ ReceivingCall(StartFind(Caller))
    \/ Concurrently(FindRead(Caller))
    \/ Concurrently(FindScan(Caller))
    \/ ReceivingCall(StartUpdate(Caller))
    \/ Concurrently(UpdateWrite1(Caller))
    \/ Concurrently(UpdateScan(Caller))
    \/ Concurrently(UpdateWrite2(Caller))
    \/ Concurrently(UpdatePush(Caller))

SpecSave == SaveInit /\ [][SaveNext]_vars

\* ------------------------------------------------------------------------
\* Specification SpecCommands: the Dispatcher receives commands of every
\* kind and runs their handlers, one after the other, while a task that a
\* scan of the scheduler loop has spawned sends its reminder.
\* ------------------------------------------------------------------------

\* What main has loaded: nothing, or one record.
CommandFiles ==
    { MissingFile,
      FileWith(to_string_pretty(
          << [chat_id |-> 7, language |-> "German", timer |-> Some(28800)] >>)) }

\* The first worker, when a scan has spawned it.
Spawnee == CHOOSE w \in Workers : \A x \in Workers : w <= x

CommandsInit ==
    /\ file \in CommandFiles
    /\ user_states = Loaded(file)
    /\ rwlock = FreeLock
    /\ pc = [t \in Procs |-> "idle"]
    /\ call = [t \in Procs |-> NoCall]
    /\ obs = [t \in Procs |-> NoObs]
    /\ pre = [user_states |-> <<>>, file |-> MissingFile]
    /\ prev = NoPrev
    /\ frame = [t \in Procs |-> IF t = Spawnee /\ HasChat(user_states, 7)
                                THEN ReminderFrame(7) ELSE NoFrame]
    /\ env = CalmEnv
    /\ log = NoLog
    /\ lookup \in Schedules

CommandsNext ==
    \/ Receiving(AnswerHelp(Caller))
    \/ Receiving(AnswerStart(Caller))
    \/ Receiving(AnswerSendDailyReminder(Caller))
    \/ Receiving(SendUserInformation(Caller))
    \/ Handling(SendUserInformationExists(Caller))
    \/ Handling(SendUserInformationFound(Caller))
    \/ Receiving(BotUnsetTimer(Caller))
    \/ Handling(BotUnsetTimerFound(Caller))
    \/ Handling(BotUnsetTimerUpdated(Caller))
    \/ Receiving(BotSetTimer(Caller))
    \/ Handling(BotSetTimerParse(Caller))
    \/ Handling(BotSetTimerUpdated(Caller))
    \/ Receiving(SetLanguage(Caller))
    \/ Handling(SetLanguageMatch(Caller))
    \/ Handling(SetLanguageUpdated(Caller))
    \/ Handling(Reply(Caller))
    \/ Concurrently(ExistsRead(Caller))
    \/ Concurrently(ExistsScan(Caller))
    \/ Concurrently(UpdateWrite1(Caller))
    \/ Concurrently(UpdateScan(Caller))
    \/ Concurrently(UpdateWrite2(Caller))
    \/ Concurrently(UpdatePush(Caller))
    \/ \E t \in {Caller, Spawnee} :
          \/ Handling(ReminderFind(t))
          \/ Concurrently(FindRead(t))
          \/ Concurrently(FindScan(t))
          \/ Handling(ReminderLookup(t))
          \/ Handling(ReminderText(t))
          \/ ReminderPoll(t)

SpecCommands == CommandsInit /\ [][CommandsNext]_vars

\* ------------------------------------------------------------------------
\* Specification SpecUnset: the scheduler loop scans in the minute of the
\* stored timer while one task handles unset-timer and set-timer commands
\* and the other a set-language request.
\* ------------------------------------------------------------------------

\* main starts in the minute of the timer, one tick before the last tick.
UnsetClock == StartClock + (MaxTicks - 1) * TimerSleepSecs

UnsetInit ==
    /\ file = FileWith(to_string_pretty(
          << [chat_id |-> 7, language |-> "German", timer |-> Some(28800)] >>))
    /\ user_states = Loaded(file)
    /\ rwlock = FreeLock
    /\ pc = [t \in Procs |-> "idle"]
    /\ call = [t \in Procs |-> NoCall]
    /\ obs = [t \in Procs |-> NoObs]
    /\ pre = [user_states |-> <<>>, file |-> MissingFile]
    /\ prev = NoPrev
    /\ frame = [t \in Procs |-> IF t = Scheduler THEN TimerFrame ELSE NoFrame]
    /\ env = [CalmEnv EXCEPT !.clock = UnsetClock]
    /\ log = NoLog
    /\ lookup = TodayListed

UnsetNext ==
    \/ TimerWhile
    \/ TimerRead
    \/ TimerScan
    \/ TimerSleep
    \/ Tick
    \/ \E w \in Workers :
          \/ Handling(ReminderFind(w))
          \/ Handling(ReminderLookup(w))
          \/ Handling(ReminderText(w))
          \/ ReminderPoll(w)
    \/ Receiving(BotUnsetTimer(Caller))
    \/ Handling(BotUnsetTimerFound(Caller))
    \/ Handling(BotUnsetTimerUpdated(Caller))
    \/ Receiving(BotSetTimer(Caller))
    \/ Handling(BotSetTimerParse(Caller))
    \/ Handling(BotSetTimerUpdated(Caller))
    \/ Receiving(SetLanguage(Other))
    \/ Handling(SetLanguageMatch(Other))
    \/ Handling(SetLanguageUpdated(Other))
    \/ \E t \in Tasks :
          \/ Handling(Reply(t))
          \/ Concurrently(UpdateWrite1(t))
          \/ Concurrently(UpdateScan(t))
          \/ Concurrently(UpdateWrite2(t))
          \/ Concurrently(UpdatePush(t))
    \/ \E t \in Tasks \cup Workers :
          \/ Concurrently(FindRead(t))
          \/ Concurrently(FindScan(t))

SpecUnset == UnsetInit /\ [][UnsetNext]_vars

\* ------------------------------------------------------------------------
\* Specification SpecLock: every user of the store's lock at once.  One
\* task makes a call of update, save or load, the other a call of find,
\* exists or update, the scheduler loop scans, and the task the scan spawns
\* calls find.  The clock stands still: the loop stays in the sleep that
\* follows its scan.  The schedule file is missing, so the spawned task
\* sends the fallback text.
\* SpecLockFair adds the least that the tokio runtime does: while some task
\* can take a step, some task is polled.  Every task has finitely many
\* steps to take, so a task that can take a step for ever takes it in the
\* end.
\* ------------------------------------------------------------------------

LockInit ==
    /\ file = FileWith(to_string_pretty(
          << [chat_id |-> 7, language |-> "German", timer |-> Some(28800)] >>))
    /\ user_states = Loaded(file)
    /\ rwlock = FreeLock
    /\ pc = [t \in Procs |-> "idle"]
    /\ call = [t \in Procs |-> NoCall]
    /\ obs = [t \in Procs |-> NoObs]
    /\ pre = [user_states |-> <<>>, file |-> MissingFile]
    /\ prev = NoPrev
    /\ frame = [t \in Procs |-> IF t = Scheduler THEN TimerFrame ELSE NoFrame]
    /\ env = [CalmEnv EXCEPT !.clock = UnsetClock]
    /\ log = NoLog
    /\ lookup = [TodayListed EXCEPT !.table = [exists |-> FALSE, lines |-> <<>>]]

\* The one store call of a task.
Once(t, A) == call[t].op = "none" /\ Concurrently(A)

CallerStep ==
    \/ Once(Caller, StartUpdate(Caller))
    \/ Concurrently(UpdateWrite1(Caller))
    \/ Concurrently(UpdateScan(Caller))
    \/ Concurrently(UpdateWrite2(Caller))
    \/ Concurrently(UpdatePush(Caller))
    \/ Once(Caller, StartWrite(Caller))
    \/ Concurrently(WriteRead(Caller))
    \/ Concurrently(WriteCreate(Caller))
    \/ Concurrently(WriteAll(Caller))
    \/ Once(Caller, StartLoad(Caller))
    \/ Concurrently(LoadRead(Caller))
    \/ Concurrently(LoadWrite(Caller))
    \/ Concurrently(LoadReplace(Caller))

OtherStep ==
    \/ Once(Other, StartFind(Other))
    \/ Concurrently(FindRead(Other))
    \/ Concurrently(FindScan(Other))
    \/ Once(Other, StartExists(Other))
    \/ Concurrently(ExistsRead(Other))
    \/ Concurrently(ExistsScan(Other))
    \/ Once(Other, StartUpdate(Other))
    \/ Concurrently(UpdateWrite1(Other))
    \/ Concurrently(UpdateScan(Other))
    \/ Concurrently(UpdateWrite2(Other))
    \/ Concurrently(UpdatePush(Other))

SchedulerStep ==
    \/ TimerWhile
    \/ TimerRead
    \/ TimerScan

WorkerStep(w) ==
    \/ Handling(ReminderFind(w))
    \/ Concurrently(FindRead(w))
    \/ Concurrently(FindScan(w))
    \/ Handling(ReminderLookup(w))
    \/ Handling(ReminderText(w))
    \/ ReminderPoll(w)

LockNext ==
    \/ CallerStep
    \/ OtherStep
    \/ SchedulerStep
    \/ WorkerStep(Spawnee)

SpecLock == LockInit /\ [][LockNext]_vars

SpecLockFair == SpecLock /\ WF_vars(LockNext)

\* ------------------------------------------------------------------------
\* Properties
\* ------------------------------------------------------------------------

\* C1: in every reachable state of the store, under any interleaving of
\* update_userstate and load_states_from_file calls starting from the empty
\* store, no two records of the collection have the same chat_id.
C1_UniqueChatIds ==
    \A i, j \in 1..Len(user_states) :
        user_states[i].chat_id = user_states[j].chat_id => i = j

\* Two tasks have returned from update_userstate calls for the same chat id
\* that ran concurrently and both started while the chat id was not stored.
RacedUpdates(t, u) ==
    /\ t # u
    /\ Idle(t) /\ Idle(u)
    /\ call[t].op = "update" /\ call[u].op = "update"
    /\ call[t].arg.chat_id = call[u].arg.chat_id
    /\ obs[t].raced /\ obs[u].raced

\* C2: two concurrent update_userstate calls for the same chat_id that was
\* absent when they started never both append: one returns false, the other
\* returns true, and the store holds exactly one record for the chat_id.
C2_ConcurrentUpsertAppendsOnce ==
    \A t, u \in Tasks :
        RacedUpdates(t, u) =>
            /\ call[t].ret_bool # call[u].ret_bool
            /\ CountChat(user_states, call[t].arg.chat_id) = 1

\* C3: find_userstate returns the stored record with the chat_id when one is
\* stored, and otherwise the default record with the requested chat_id,
\* language English and no timer.
C3_FindStoredOrDefault ==
    Returned("find") =>
        LET c == call[Caller].arg.chat_id
            r == call[Caller].ret_state
        IN  /\ r.chat_id = c
            /\ IF HasChat(pre.user_states, c)
               THEN \E i \in 1..Len(pre.user_states) : pre.user_states[i] = r
               ELSE r.language = "English" /\ ~r.timer.some

\* A find returned a stored record that differs from the default record and
\* is not the first record of the Vec.
C3_Witness ==
    /\ Returned("find")
    /\ Len(pre.user_states) = 2
    /\ pre.user_states[2].chat_id = call[Caller].arg.chat_id
    /\ call[Caller].ret_state.timer.some

\* C4: with no other store operation in between, update_userstate(s) followed
\* by find_userstate(s.chat_id) returns a record equal to s in chat_id,
\* language and timer, whether s.chat_id was stored before or not.
C4_UpdateThenFind ==
    ( /\ Returned("find")
      /\ Before("update")
      /\ prev.call.arg.chat_id = call[Caller].arg.chat_id )
    => call[Caller].ret_state = prev.call.arg

\* A find followed an update that replaced a stored record whose timer was
\* different from the new one.
C4_Witness ==
    /\ Returned("find")
    /\ Before("update")
    /\ prev.call.arg.chat_id = call[Caller].arg.chat_id
    /\ prev.call.ret_bool
    /\ prev.call.arg.timer.some

\* C5: for sequential calls update_userstate returns false exactly when no
\* record with the chat_id was stored before the call and true exactly when
\* one was; after a first call returning false and a second call for the same
\* chat_id returning true the store holds exactly one record for it.
C5_UpdateReturnValue ==
    Returned("update") =>
        LET c == call[Caller].arg.chat_id
        IN  /\ call[Caller].ret_bool = HasChat(pre.user_states, c)
            /\ ( /\ Before("update")
                 /\ prev.call.arg.chat_id = c
                 /\ ~prev.call.ret_bool
                 /\ call[Caller].ret_bool )
               => CountChat(user_states, c) = 1

\* A first update for a chat id returned false and a second one for the same
\* chat id returned true.
C5_Witness ==
    /\ Returned("update")
    /\ Before("update")
    /\ prev.call.arg.chat_id = call[Caller].arg.chat_id
    /\ ~prev.call.ret_bool
    /\ call[Caller].ret_bool

\* C6: find_userstate and user_state_exists leave the stored collection
\* unchanged; a find for a chat_id that is not stored returns the default
\* record without adding a record, so user_state_exists for that chat_id is
\* still false afterwards.
C6_LookupsLeaveStoreUnchanged ==
    /\ (Returned("find") \/ Returned("exists")) => user_states = pre.user_states
    /\ ( /\ Returned("exists")
         /\ Before("find")
         /\ prev.call.arg.chat_id = call[Caller].arg.chat_id
         /\ prev.absent )
       => ~call[Caller].ret_bool

\* user_state_exists ran right after a find for the same chat id, which was
\* not stored, on a store that holds a record of another chat.
C6_Witness ==
    /\ Returned("exists")
    /\ Before("find")
    /\ prev.call.arg.chat_id = call[Caller].arg.chat_id
    /\ prev.absent
    /\ prev.call.ret_state = DefaultUserState(call[Caller].arg.chat_id)
    /\ Len(user_states) >= 1

\* C7: after any sequence of store operations, user_state_exists(chat_id)
\* returns true if and only if the collection currently holds a record with
\* that chat_id.
C7_ExistsIffStored ==
    Returned("exists") =>
        (call[Caller].ret_bool <=> HasChat(user_states, call[Caller].arg.chat_id))

\* user_state_exists returned true for a chat id whose record is the second
\* of two stored records.
C7_Witness ==
    /\ Returned("exists")
    /\ call[Caller].ret_bool
    /\ Len(user_states) = 2
    /\ user_states[2].chat_id = call[Caller].arg.chat_id

\* C8: for every collection of records, write_states_to_file followed by a
\* successful load_states_from_file of the same path into a fresh store
\* yields the same records (chat ids, languages, timers, absent timers) in
\* the same order.
C8_SaveLoadRoundTrip ==
    ( /\ Returned("load")
      /\ call[Caller].ret_ok
      /\ Before("write")
      /\ prev.call.ret_ok )
    => user_states = pre.user_states

\* A collection of MaxRecords records, one with a timer that has seconds and
\* one without a timer, was saved and loaded back into a fresh store.
C8_Witness ==
    /\ Returned("load")
    /\ call[Caller].ret_ok
    /\ Before("write")
    /\ prev.call.ret_ok
    /\ Len(pre.user_states) = MaxRecords
    /\ \E i \in 1..Len(pre.user_states) :
          /\ pre.user_states[i].timer.some
          /\ Second(pre.user_states[i].timer.secs) # 0
          /\ pre.user_states[i].chat_id < 0
    /\ \E i \in 1..Len(pre.user_states) : ~pre.user_states[i].timer.some

\* The file the load started from cannot be loaded: it is missing or its text
\* does not deserialize.
Unloadable(f) == ~f.exists \/ ~from_str(f.text).ok

\* C9: when load_states_from_file fails (file missing, unreadable, or content
\* that does not deserialize) it returns an error and the in-memory
\* collection is exactly what it was before the call.
C9_FailedLoadKeepsCollection ==
    Returned("load") =>
        /\ Unloadable(pre.file) => ~call[Caller].ret_ok
        /\ ~call[Caller].ret_ok => user_states = pre.user_states

\* A load of a file whose text does not deserialize failed on a store that
\* holds records.
C9_Witness ==
    /\ Returned("load")
    /\ ~call[Caller].ret_ok
    /\ pre.file.exists
    /\ ~from_str(pre.file.text).ok
    /\ Len(user_states) >= 1

\* C10: a successful load_states_from_file replaces the whole in-memory
\* collection: afterwards the collection equals exactly the records of the
\* file, and no record stored before the load that is not in the file remains.
C10_LoadReplacesCollection ==
    (Returned("load") /\ call[Caller].ret_ok) =>
        /\ ~Unloadable(pre.file)
        /\ user_states = from_str(pre.file.text).value
        /\ \A i \in 1..Len(pre.user_states) :
              (\A j \in 1..Len(from_str(pre.file.text).value) :
                    from_str(pre.file.text).value[j] # pre.user_states[i])
              => \A k \in 1..Len(user_states) : user_states[k] # pre.user_states[i]

\* A load succeeded on a store that held a record the file does not have,
\* from a file that has a record.
C10_Witness ==
    /\ Returned("load")
    /\ call[Caller].ret_ok
    /\ Len(user_states) >= 1
    /\ \E i \in 1..Len(pre.user_states) :
          \A k \in 1..Len(user_states) : user_states[k] # pre.user_states[i]


\* A data row the schedule format does not allow: a number of columns other
\* than 3, or a first column that does not parse as MM-DD.
MalformedRow(string_record) ==
    \/ Len(string_record) # 3
    \/ ~parse_from_str_date(DateText(string_record[1])).ok

DataRows(table) == 2..Len(table.lines)

LookupDone == lookup.result.kind # "none"

\* C19: when the schedule table has any malformed data row (a number of
\* columns other than 3, or a date that does not parse as MM-DD),
\* get_biblereading_for_date returns the invalid-format error for every
\* search date, also for a date whose well-formed row precedes that row.
C19_MalformedRowFailsEveryLookup ==
    ( /\ LookupDone
      /\ lookup.table.exists
      /\ \E i \in DataRows(lookup.table) :
            MalformedRow(lookup.table.lines[i]) )
    => lookup.result.kind = "InvalidFormat"

\* A header of three columns followed by data rows of three columns whose
\* first column parses as MM-DD.
WellFormedTable(table) ==
    /\ table.exists
    /\ Len(table.lines) >= 1
    /\ Len(table.lines[1]) = 3
    /\ \A i \in DataRows(table) : ~MalformedRow(table.lines[i])

\* The data rows whose MM-DD is the month and day of the date.
RowsOfDay(table, date) ==
    {i \in DataRows(table) :
        LET parsed == parse_from_str_date(DateText(table.lines[i][1]))
        IN  parsed.date.month = date.month /\ parsed.date.day = date.day}

\* C20: for a well-formed schedule table and any search date, whatever its
\* year, get_biblereading_for_date returns the row whose MM-DD is the
\* date's month and day, the new-testament reference from column 1 and the
\* old-testament reference from column 2, and the date-does-not-exist error
\* when no row has that month and day.
C20_LookupByMonthAndDay ==
    (LookupDone /\ WellFormedTable(lookup.table))
    => IF RowsOfDay(lookup.table, lookup.date) = {}
       THEN lookup.result.kind = "DateDoesNotExist"
       ELSE \E i \in RowsOfDay(lookup.table, lookup.date) :
               /\ lookup.result.kind = "Ok"
               /\ lookup.result.new_testament_reading = lookup.table.lines[i][2]
               /\ lookup.result.old_testament_reading = lookup.table.lines[i][3]

\* A date of 2024 is found in a well-formed table of a header and two rows.
C20_Witness ==
    /\ LookupDone
    /\ WellFormedTable(lookup.table)
    /\ Len(lookup.table.lines) = 3
    /\ lookup.date.year # DEFAULT_YEAR
    /\ lookup.result.kind = "Ok"
    /\ lookup.result.new_testament_reading = <<"1Kor12">>
    /\ lookup.result.old_testament_reading = <<"Psalm 135,136">>


\* The argument of the command the handler runs is one it rejects: a
\* set-timer argument that is no HH:MM time of day, a set-language argument
\* that is neither "en" nor "de" in any letter case.
Rejected(f) ==
    \/ /\ f.fn = "bot_set_timer"
       /\ ~parse_from_str_time(f.text).ok
    \/ /\ f.fn = "set_language"
       /\ to_lowercase(f.text) \notin {<<"e", "n">>, <<"d", "e">>}

\* The step is one of task t.
StepOf(t) == frame'[t] # frame[t] \/ pc'[t] # pc[t] \/ call'[t] # call[t]

\* C14: no step of a set-timer handler whose argument does not parse as
\* HH:MM, and no step of a set-language handler whose argument is neither
\* "en" nor "de", changes the store; when the handler has returned, the only
\* message the user may have received is the corrective message or the
\* language chooser.
C14_RejectedInputLeavesStore ==
    [][\A t \in Tasks :
          Rejected(frame'[t])
          => /\ StepOf(t) => user_states' = user_states
             /\ frame'[t].at = "done"
                => frame'[t].sent \in
                      { <<>>,
                        IF frame'[t].fn = "bot_set_timer"
                        THEN <<"msg_error_timer_update">>
                        ELSE <<"msg_select_language">> }]_vars

\* A set-timer handler has answered "25:00" with the corrective message on
\* a store that holds the record the other task's set-language "de" wrote.
C14_Witness ==
    /\ frame[1].fn = "bot_set_timer"
    /\ frame[1].text = <<"2", "5", ":", "0", "0">>
    /\ frame[1].at = "done"
    /\ frame[1].sent = <<"msg_error_timer_update">>
    /\ frame[2].fn = "set_language"
    /\ frame[2].at = "done"
    /\ user_states = <<[chat_id |-> frame[1].chat_id, language |-> "German",
                        timer |-> None]>>


\* The handler's find_userstate has returned.
ReadBackReturned == At(Caller, "upsert_then_read", "find")

\* C16 as stated: when a handler calls update_userstate for a chat and then
\* find_userstate for the same chat, the find returns the record the handler
\* just wrote, whatever the other tasks do between the two calls.
C16_ReadYourWrite ==
    ReadBackReturned => call[Caller].ret_state = frame[Caller].user_state

\* C16 as amended: the find returns the record the handler just wrote when
\* no other task has changed the stored records of that chat between the
\* start of the handler's update_userstate call and the return of its
\* find_userstate call; finds, snapshots and writes to other chats may be
\* interleaved freely.
C16_ReadYourWriteUndisturbed ==
    (ReadBackReturned /\ ~log.dirty)
    => call[Caller].ret_state = frame[Caller].user_state

\* The handler has read back the record it appended although, between its
\* two calls, the other task appended a record of another chat and a
\* snapshot was written.
C16_Witness ==
    /\ ReadBackReturned
    /\ ~log.dirty
    /\ call[Caller].ret_state = frame[Caller].user_state
    /\ frame[Caller].chat_id = 7
    /\ Len(user_states) = 2
    /\ user_states[2].chat_id = -12
    /\ call[Saver].op = "write"
    /\ call[Saver].ret_ok
    /\ Idle(Saver)


\* C11: in the minute of each scan of the scheduler loop, however many
\* iterations of the loop fall into that minute, a chat whose stored timer
\* is that minute has got exactly one reminder dispatch, and a chat with no
\* timer or with a timer of another minute has got none.
C11_OneDispatchPerMinute ==
    \A c \in ChatIds :
        /\ (log.records[c] >= 1 /\ log.matched[c] = log.records[c])
           => log.dispatched[c] = 1
        /\ log.matched[c] = 0 => log.dispatched[c] = 0

ShutDown ==
    /\ env.main = "returned"
    /\ \A t \in Procs : pc[t] # "write_all"

\* C12: when the process has shut down after the shutdown signal, the
\* persistence loop has taken its final snapshot, and when that snapshot
\* succeeded the state file holds the serialisation of the in-memory
\* collection.
C12_FinalSnapshotOnShutdown ==
    ShutDown =>
        /\ log.final # "none"
        /\ log.final = "Ok" => file = FileWith(to_string_pretty(user_states))

\* C13: neither background loop is ended in the middle of an iteration: a
\* loop that has ended has left through its loop exit, after its ctrl-c
\* listener had finished.
C13_LoopsLeaveAtIterationBoundary ==
    \A l \in {Scheduler, Saver} :
        /\ frame[l].at # "cancelled"
        /\ frame[l].at = "exited" => l \in env.seen

\* C15: every step that changes the state file leaves in it the complete
\* serialisation of the collection, so that a reader of the file sees the
\* complete previous content or the complete new content.
C15_SnapshotWriteIsAtomic ==
    [][file' # file => file' = FileWith(to_string_pretty(user_states))]_vars

\* C18: a snapshot changes nothing of the in-memory collection; when it has
\* failed, the failure is logged, the task that took it holds no guard of
\* the lock any more, and the persistence loop is still in its loop.
C18_FailedSnapshotIsHarmless ==
    [][ /\ (\A t \in Tasks : pc'[t] = pc[t]) => user_states' = user_states
        /\ \A w \in Workers :
              (/\ frame[w].fn = "handle_save_current_userstates"
               /\ frame'[w].fn = "none"
               /\ ~call[w].ret_ok) => log'.save_failed
        /\ \A w \in Workers :
              Idle(w)' =>
                 /\ w \notin rwlock'.readers
                 /\ rwlock'.writer # w
        /\ frame'[Saver].at \in {"loop", "sleep"} ]_vars

\* No snapshot has ever opened the state file: the first periodic snapshot
\* failed and was logged and the loop has spawned the next, while the
\* handler task has found the record that its update_userstate appended.
C18_Witness ==
    /\ log.save_failed
    /\ log.save_retried
    /\ ~file.exists
    /\ Len(user_states) = 1
    /\ Idle(Caller)
    /\ call[Caller].op = "find"
    /\ call[Caller].ret_state = user_states[1]
    /\ user_states[1].timer.some

\* The first position of states that holds a record of chat_id c, and
\* Len(states) + 1 when there is none.
FirstOf(states, c) ==
    IF HasChat(states, c)
    THEN CHOOSE i \in 1..Len(states) :
            /\ states[i].chat_id = c
            /\ \A j \in 1..(i - 1) : states[j].chat_id # c
    ELSE Len(states) + 1

\* C26: a sequential call update_userstate(s) that returned true has left
\* the number of records unchanged, has put s at the position of the
\* first record of s.chat_id and has left every other position as it was;
\* one that returned false has appended s at the end and left every earlier
\* position as it was.
C26_UpdateChangesOnlyItsRecord ==
    Returned("update") =>
        LET s == call[Caller].arg
            k == FirstOf(pre.user_states, s.chat_id)
        IN  IF call[Caller].ret_bool
            THEN /\ Len(user_states) = Len(pre.user_states)
                 /\ k <= Len(user_states)
                 /\ user_states[k] = s
                 /\ \A i \in 1..Len(user_states) :
                       i # k => user_states[i] = pre.user_states[i]
            ELSE /\ user_states = Append(pre.user_states, s)
                 /\ \A i \in 1..Len(pre.user_states) :
                       pre.user_states[i].chat_id # s.chat_id

\* An update has replaced the second of two records by a different record
\* and has left the first, of another chat, in its place.
C26_Witness ==
    /\ Returned("update")
    /\ call[Caller].ret_bool
    /\ Len(pre.user_states) = 2
    /\ pre.user_states[1].chat_id # call[Caller].arg.chat_id
    /\ pre.user_states[2].chat_id = call[Caller].arg.chat_id
    /\ pre.user_states[2] # call[Caller].arg
    /\ user_states[1] = pre.user_states[1]
    /\ user_states[2] = call[Caller].arg

\* The handler a task runs is one of the preference-setting commands.
SetsPreference(t) ==
    frame[t].fn \in {"bot_set_timer", "bot_unset_timer", "set_language"}

\* The handler's input was accepted: the time parses, the language is one
\* of the two, and unset-timer takes no input.
Accepted(t) ==
    \/ frame[t].fn = "bot_unset_timer"
    \/ frame[t].fn = "bot_set_timer" /\ parse_from_str_time(frame[t].text).ok
    \/ /\ frame[t].fn = "set_language"
       /\ to_lowercase(frame[t].text) \in { <<"d", "e">>, <<"e", "n">> }

\* C21: no step removes a record of any chat, and a step that adds a
\* record of a chat is a step of the update_userstate call of a handler of
\* set-timer, unset-timer or set-language for that chat whose input was
\* accepted; the handlers of start, help, user-info and send-reminder-now
\* and the tasks the scheduler spawned add none.
C21_RecordsComeFromPreferenceCommands ==
    [][\A c \in ChatIds :
          /\ CountChat(user_states', c) >= CountChat(user_states, c)
          /\ CountChat(user_states', c) > CountChat(user_states, c)
             => \E t \in Tasks :
                   /\ SetsPreference(t)
                   /\ Accepted(t)
                   /\ frame[t].chat_id = c
                   /\ pc[t] = "update_push"
                   /\ pc'[t] = "idle"]_vars

\* Two commands have been handled, the second of them send-reminder-now
\* for chat -12, which has no record, and the spawned task has ended with
\* a transport error: the record that main loaded is still the only one.
C21_Witness ==
    /\ env.received = 2
    /\ frame[Caller].fn = "send_daily_reminder"
    /\ frame[Caller].at = "done"
    /\ frame[Caller].chat_id = -12
    /\ frame[Spawnee].fn = "none"
    /\ log.failed
    /\ Len(user_states) = 1
    /\ user_states[1].chat_id = 7

\* The text send_daily_reminder has to send today.
TextOfToday ==
    IF get_todays_biblereading.kind = "Ok" THEN "msg_biblereading"
    ELSE "msg_biblereading_not_found"

\* C22: a run of send_daily_reminder tries nothing before its lookup, then
\* one text, the reading when the lookup of today succeeded and the
\* fallback when it failed, in the language of the record it found, and
\* then one poll, whether or not the text was delivered; what it returns is
\* the outcome of the poll.
C22_OneTextThenOnePoll ==
    \A t \in {Caller, Spawnee} :
        frame[t].fn = "send_daily_reminder" =>
            LET tried == frame[t].tried
            IN  /\ frame[t].at \in {"start", "find", "text", "poll", "done"}
                /\ frame[t].at \in {"start", "find"} => tried = <<>>
                /\ frame[t].at = "text" =>
                      tried = <<>> /\ frame[t].msg = TextOfToday
                /\ frame[t].at \in {"poll", "done"} =>
                      /\ Len(tried) >= 1
                      /\ tried[1].msg = TextOfToday
                      /\ tried[1].language = call[t].ret_state.language
                /\ frame[t].at = "poll" => Len(tried) = 1
                /\ frame[t].at = "done" =>
                      /\ Len(tried) = 2
                      /\ tried[2].msg = "msg_poll_text"
                      /\ frame[t].result = IF tried[2].ok THEN "Ok" ELSE "Err"

\* There is no schedule file: the fallback was tried in German and not
\* delivered, the poll was delivered, and the run for the stored chat
\* returned Ok.
C22_Witness ==
    /\ frame[Caller].fn = "send_daily_reminder"
    /\ frame[Caller].at = "done"
    /\ frame[Caller].chat_id = 7
    /\ ~lookup.table.exists
    /\ frame[Caller].tried =
          << Request("msg_biblereading_not_found", "German", FALSE),
             Request("msg_poll_text", "German", TRUE) >>
    /\ frame[Caller].result = "Ok"

\* The language an accepted set-language argument selects.
LanguageOf(text) ==
    IF to_lowercase(text) = <<"d", "e">> THEN "German" ELSE "English"

\* C23: when one task has handled an accepted set-timer command and the
\* other an accepted set-language command for the same chat, and both
\* handlers have completed, every stored record of that chat carries the
\* new timer and the new language.
C23_ConcurrentPreferencesBothKept ==
    \A t, u \in Tasks :
        ( /\ frame[t].fn = "bot_set_timer" /\ Accepted(t)
          /\ frame[u].fn = "set_language" /\ Accepted(u)
          /\ frame[t].chat_id = frame[u].chat_id
          /\ frame[t].at = "done" /\ frame[u].at = "done" )
        => \A i \in 1..Len(user_states) :
              user_states[i].chat_id = frame[t].chat_id
              => /\ user_states[i].timer =
                       Some(parse_from_str_time(frame[t].text).secs)
                 /\ user_states[i].language = LanguageOf(frame[u].text)

\* A handler of unset-timer for chat c has completed its update_userstate
\* and no task has taken a set-timer command for c since.
UnsetStands(c) ==
    /\ \E t \in Tasks :
          /\ frame[t].fn = "bot_unset_timer"
          /\ frame[t].chat_id = c
          /\ frame[t].at \in {"send", "done"}
    /\ \A u \in Tasks :
          ~(frame[u].fn = "bot_set_timer" /\ frame[u].chat_id = c)

\* The workers on which this step spawns a reminder for chat c.
SpawnedFor(c) ==
    { w \in Workers :
        /\ frame[w].fn = "none"
        /\ frame'[w].fn = "send_daily_reminder"
        /\ frame'[w].chat_id = c }

\* C24: a scan of the scheduler loop that reads the store after a handler
\* of unset-timer for a chat has completed its update_userstate, with no
\* set-timer command for the chat since, spawns no reminder for that chat.
\* The scan holds the read guard from its start, so an update_userstate
\* that has returned when the scan reads had returned when the scan
\* started.
C24_NoReminderAfterUnset ==
    [][\A c \in ChatIds :
          (UnsetStands(c) /\ pc[Scheduler] = "timer_scan")
          => SpawnedFor(c) = {}]_vars

\* The task stands at a request for the lock.
Requests(t) ==
    pc[t] \in {"exists_read", "find_read", "update_write1", "update_write2",
               "write_read", "load_write", "timer_read"}

\* The task holds a guard of the lock.
Holds(t) == t \in rwlock.readers \/ rwlock.writer = t

\* C25: no task requests the store's lock while it holds a guard of it,
\* and, under fair scheduling, there comes a time from which no store
\* operation and no scan is under way: each one that was started has come
\* to its end.
C25_NoTaskWaitsForever ==
    /\ [](\A t \in Procs : Requests(t) => ~Holds(t))
    /\ <>[](\A t \in Procs : pc[t] = "idle")

\* While the scheduler loop holds its read guard, an update_userstate waits
\* for the guard of its append and a find_userstate of a spawned task waits
\* behind it.
C25_Witness ==
    /\ rwlock.readers # {}
    /\ Len(rwlock.queue) = 2
    /\ pc[rwlock.queue[1]] = "update_write2"
    /\ rwlock.queue[2] \in Workers
    /\ pc[rwlock.queue[2]] = "find_read"

====
